---- MODULE Spec2Model ----
(***************************************************************************)
(* Verification model of the robarma library (robust ARMA estimation).     *)
(*                                                                         *)
(* The specifications share the variables below.                           *)
(*   SpecModel : construction of an arma_model from (y, p, q).             *)
(*   Spec      : the estimator pipeline on a constructed arma_model:       *)
(*               hannan_rissanen, solver::solve and the public estimators. *)
(*   SpecSimulate, SpecRobust, SpecKalman, SpecRho, SpecResiduals,         *)
(*   SpecCausal, SpecFtau : one library routine each (simulate, scale and  *)
(*               MADN, the Kalman filter of mle, the rho functions, the    *)
(*               residual recurrences, causal, the filtered-tau cost).     *)
(*                                                                         *)
(* Numbers.  Series values are small integers plus the non-finite value    *)
(* Inf.  A median of an even number of values may be a half-integer, so    *)
(* medians are carried in units of 1/2 (mu) and 1/4 (sigma_0).  The        *)
(* M-scale itself is irrational; the model keeps its class only:           *)
(* "zero", "pos", "inf" or "nan".  Values of the cost functionals are      *)
(* unknown real functions of the parameters; every evaluation yields some  *)
(* finite value in Costs, and the model records where it was evaluated.    *)
(***************************************************************************)
EXTENDS Integers, Sequences, FiniteSets

\* ------------------------------------------------------------------ bounds
MaxN == 4          \* longest series handed to the constructor in SpecModel
MaxVal == 1        \* series entries range over 0..MaxVal and Inf
MaxOrder == 1      \* orders p, q range up to MaxOrder
MaxCost == 1       \* cost values range over 0..MaxCost
CoefDen == 2       \* simulate: phi and theta entries are multiples of 1/CoefDen
MaxCoef == 3       \* simulate: ... from -MaxCoef/CoefDen to MaxCoef/CoefDen
MaxSeed == 1       \* simulate: seeds range over -1..MaxSeed
MaxTime == 2       \* the clock runs from 1 to MaxTime
MaxLen == 3        \* longest vector handed to scale and MADN
KalmanVal == 2     \* update: a, P, v, f range over -KalmanVal..KalmanVal
GridDen == 2       \* rho functions are evaluated at multiples of 1/GridDen

\* ------------------------------------------------------- extended numbers
\* IEEE infinity and not-a-number, encoded above every finite value the
\* model computes (finite values stay within -4*MaxVal .. 4*MaxVal).
Inf == 4 * MaxVal + 1
NaN == 4 * MaxVal + 2

IsFinite(v) == (v # Inf) /\ (v # -Inf) /\ (v # NaN)

\* a - b on extended numbers
Minus(a, b) ==
    IF a = NaN \/ b = NaN THEN NaN
    ELSE IF IsFinite(a) /\ IsFinite(b) THEN a - b
    ELSE IF IsFinite(a) THEN -b
    ELSE IF IsFinite(b) THEN a
    ELSE IF a = b THEN NaN ELSE a

\* a + b on extended numbers
Plus(a, b) ==
    IF a = NaN \/ b = NaN THEN NaN
    ELSE IF IsFinite(a) /\ IsFinite(b) THEN a + b
    ELSE IF IsFinite(a) THEN b
    ELSE IF IsFinite(b) THEN a
    ELSE IF a = b THEN a ELSE NaN

\* |a| on extended numbers
Abs(a) == IF a = NaN THEN NaN ELSE IF a < 0 THEN -a ELSE a

\* k * a for a positive integer k
Times(k, a) == IF IsFinite(a) THEN k * a ELSE a

fmax(a, b) == IF a < b THEN b ELSE a

fmin(a, b) == IF b < a THEN b ELSE a

HasNaN(s) == \E i \in 1..Len(s) : s[i] = NaN

\* Exact fractions n/d, kept in lowest terms with d > 0
RECURSIVE GCD(_, _)
GCD(a, b) == IF b = 0 THEN a ELSE GCD(b, a % b)

Rat(n, d) ==
    LET g == GCD(Abs(n), Abs(d))
    IN  IF d < 0 THEN << - (n \div g), - (d \div g) >> ELSE << n \div g, d \div g >>

\* The least common denominator of a and b
LCD(a, b) == (a[2] \div GCD(a[2], b[2])) * b[2]

RatAdd(a, b) ==
    LET l == LCD(a, b)
    IN  Rat(a[1] * (l \div a[2]) + b[1] * (l \div b[2]), l)

RatNeg(a) == << - a[1], a[2] >>

RatSub(a, b) == RatAdd(a, RatNeg(b))

RatMul(a, b) ==
    LET u == Rat(a[1], b[2])
        v == Rat(b[1], a[2])
    IN  << u[1] * v[1], u[2] * v[2] >>

RatDiv(a, b) == IF b[1] < 0 THEN RatMul(a, << - b[2], - b[1] >>) ELSE RatMul(a, << b[2], b[1] >>)

RatAbs(a) == << Abs(a[1]), a[2] >>

RatLeq(a, b) == a[1] * (LCD(a, b) \div a[2]) <= b[1] * (LCD(a, b) \div b[2])

RatLess(a, b) == a[1] * (LCD(a, b) \div a[2]) < b[1] * (LCD(a, b) \div b[2])

RECURSIVE RatPow(_, _)
RatPow(a, k) == IF k = 0 THEN <<1, 1>> ELSE RatMul(a, RatPow(a, k - 1))

\* Floating-point values with exact finite part: a number n/d, an infinity
\* (val carries the sign) or NaN.  Zero is unsigned: x / 0 takes the sign of x.
Num(r) == [kind |-> "num", val |-> r]

Int2F(k) == Num(Rat(k, 1))

FInf(sign) == [kind |-> "inf", val |-> <<sign, 1>>]

FNaN == [kind |-> "nan", val |-> <<0, 1>>]

SignOf(a) == IF a.val[1] > 0 THEN 1 ELSE IF a.val[1] < 0 THEN -1 ELSE 0

IsNum(a) == a.kind = "num"

FNeg(a) == [a EXCEPT !.val = RatNeg(a.val)]

FAdd(a, b) ==
    IF a.kind = "nan" \/ b.kind = "nan" THEN FNaN
    ELSE IF a.kind = "inf" /\ b.kind = "inf" THEN (IF a = b THEN a ELSE FNaN)
    ELSE IF a.kind = "inf" THEN a
    ELSE IF b.kind = "inf" THEN b
    ELSE Num(RatAdd(a.val, b.val))

FSub(a, b) == FAdd(a, FNeg(b))

FMul(a, b) ==
    IF a.kind = "nan" \/ b.kind = "nan" THEN FNaN
    ELSE IF a.kind = "inf" \/ b.kind = "inf"
         THEN (IF SignOf(a) * SignOf(b) = 0 THEN FNaN ELSE FInf(SignOf(a) * SignOf(b)))
    ELSE Num(RatMul(a.val, b.val))

FDiv(a, b) ==
    IF a.kind = "nan" \/ b.kind = "nan" THEN FNaN
    ELSE IF a.kind = "inf"
         THEN (IF b.kind = "inf" THEN FNaN
               ELSE IF SignOf(b) = 0 THEN a ELSE FInf(SignOf(a) * SignOf(b)))
    ELSE IF b.kind = "inf" THEN Int2F(0)
    ELSE IF SignOf(b) = 0 THEN (IF SignOf(a) = 0 THEN FNaN ELSE FInf(SignOf(a)))
    ELSE Num(RatDiv(a.val, b.val))

\* The class of an IEEE value by magnitude: "zero", "pos" (finite and not
\* zero), "inf" or "nan"
ClassOf(v) ==
    IF v = NaN THEN "nan"
    ELSE IF v = Inf \/ v = - Inf THEN "inf"
    ELSE IF v = 0 THEN "zero" ELSE "pos"

\* |a / b| on classes
ClassDiv(a, b) ==
    IF a = "nan" \/ b = "nan" THEN "nan"
    ELSE IF a = "zero" THEN (IF b = "zero" THEN "nan" ELSE "zero")
    ELSE IF a = "inf" THEN (IF b = "inf" THEN "nan" ELSE "inf")
    ELSE IF b = "zero" THEN "inf"
    ELSE IF b = "inf" THEN "zero" ELSE "pos"

\* |a * b| on classes
ClassMul(a, b) ==
    IF a = "nan" \/ b = "nan" THEN "nan"
    ELSE IF a = "zero" THEN (IF b = "inf" THEN "nan" ELSE "zero")
    ELSE IF b = "zero" THEN (IF a = "inf" THEN "nan" ELSE "zero")
    ELSE IF a = "inf" \/ b = "inf" THEN "inf" ELSE "pos"

\* --------------------------------------------------------------- robust.hpp
RECURSIVE Insert(_, _)
Insert(v, s) ==
    IF s = <<>> THEN <<v>>
    ELSE IF v <= Head(s) THEN <<v>> \o s
    ELSE <<Head(s)>> \o Insert(v, Tail(s))

\* std::sort on a NaN-free range
RECURSIVE sort(_)
sort(s) == IF s = <<>> THEN <<>> ELSE Insert(Head(s), sort(Tail(s)))

\* The value read off a sorted range r: the middle element, or the mean of
\* the two middle elements; returned as twice the median.
MiddleOf(r) ==
    LET sz == Len(r)
    IN  IF sz % 2 = 0
        THEN Plus(r[((sz - 2) \div 2) + 1], r[((sz - 2) \div 2) + 2])
        ELSE Times(2, r[(sz \div 2) + 1])

\* median(d): the set of values the call can return, each as twice the
\* median.  std::sort requires a strict weak ordering; a range holding NaN
\* breaks it, and the order the elements end up in is unspecified, so any
\* element may land in the middle.
median(d) ==
    IF HasNaN(d)
    THEN IF \A i \in 1..Len(d) : d[i] = NaN
         THEN {NaN}
         ELSE {NaN} \cup {Times(2, d[i]) : i \in 1..Len(d)}
    ELSE {MiddleOf(sort(d))}

\* y.array() - mu, in units of 1/2 (mu is twice the median)
Centred(y, mu) == [i \in 1..Len(y) |-> Minus(Times(2, y[i]), mu)]

AbsSeq(x) == [i \in 1..Len(x) |-> Abs(x[i])]

\* scale(x) with the default bisquare rho and b = 0.5, reduced to the class
\* of its result.  sigma_0 = median(|x|)/0.6745.
\*   sigma_0 = 0   : x/sigma_0 is +-inf or NaN, bisquare gives 1 for both,
\*                   sigma_1 = sqrt(0 * 1 / b) = 0, err = 0/0 = NaN, the
\*                   loop test (err > tol) is false: returns 0.
\*   sigma_0 = inf : sigma_1 = inf, err = NaN: returns inf.
\*   sigma_0 = NaN : sigma_1 = NaN, err = NaN: returns NaN.
\*   otherwise     : some |x_i| > 0, every iterate stays positive.
scale(x) ==
    { IF s0 = NaN THEN "nan"
      ELSE IF s0 = 0 THEN "zero"
      ELSE IF s0 = Inf THEN "inf"
      ELSE "pos" : s0 \in median(AbsSeq(x)) }

\* MAD(x) = median(|x - median(x)|): the values the call can return, in
\* units of 1/4 (the inner median is carried doubled, and so is the outer)
MAD(x) == UNION { median(AbsSeq(Centred(x, med))) : med \in median(x) }

\* a / (num/den) for a in units of 1/4: a fraction, or a unchanged when it
\* is not finite
Over(a, num, den) == IF IsFinite(a) THEN RatDiv(Rat(a, 4), Rat(num, den)) ELSE a

\* MADN(x) = MAD(x) / T(0.675)
MADN(x) == { Over(mad, 675, 1000) : mad \in MAD(x) }

\* The rho functions handed to scale as func: the default bisquare, tau::rho1
\* (from tau::s) and bip::rho1 (from the S and BIP-S costs)
ScaleRhos == {"bisquare", "tau::rho1", "bip::rho1"}

\* Variant: rho evaluated by its polynomial alone, without the else branch
\* that catches NaN and large arguments
func_unclipped(rho, u) == u

\* func(u) for one entry u of x / sigma_0, by class.  All three functions
\* are 0 at 0, positive and bounded elsewhere, and return their constant
\* (1, 1, 3.25) when the comparison abs(u) <= c is false, which it is for
\* infinite u and for NaN.
func(rho, u) == IF u = "zero" THEN "zero" ELSE "pos"

\* v.mean() on classes
mean(v) ==
    IF \E i \in 1..Len(v) : v[i] = "nan" THEN "nan"
    ELSE IF \E i \in 1..Len(v) : v[i] = "inf" THEN "inf"
    ELSE IF \A i \in 1..Len(v) : v[i] = "zero" THEN "zero" ELSE "pos"

\* T sigma_0 = median(x.array().abs()) / T(0.6745), by class
scale_sigma_0(x) == { ClassOf(m) : m \in median(AbsSeq(x)) }

\* sigma_1 = sqrt(pow(sigma_0, 2) * func((x / sigma_0).eval()).mean() / b)
\* for b > 0, by class
scale_sigma_1(x, rho, sigma_0) ==
    ClassMul(ClassMul(sigma_0, sigma_0),
             mean([i \in 1..Len(x) |-> func(rho, ClassDiv(ClassOf(x[i]), sigma_0))]))

\* err = abs(sigma_1 - sigma_0) / sigma_0: the values it can take, as
\* "zero", "small" (positive, below tol), "tol" (equal to tol), "large"
\* (above tol), "inf", "nan"
scale_err(sigma_1, sigma_0) ==
    IF sigma_1 = "nan" \/ sigma_0 = "nan" THEN {"nan"}
    ELSE IF sigma_0 = "zero" THEN (IF sigma_1 = "zero" THEN {"nan"} ELSE {"inf"})
    ELSE IF sigma_0 = "inf" THEN {"nan"}
    ELSE IF sigma_1 = "inf" THEN {"inf"}
    ELSE IF sigma_1 = "zero" THEN {"large"}
    ELSE {"zero", "small", "tol", "large"}

\* Variant: the test written as !(err <= tol), which NaN passes
scale_continues_unless_small(err, i, max) == err \notin {"zero", "small", "tol"} /\ i < max

\* while ((err > tol) && (i < max)): NaN compares false
scale_continues(err, i, max) == err \in {"large", "inf"} /\ i < max

\* ----------------------------------------------------------------- arma.hpp
\* Variant: the constructor's median call sorts the member y in place
arma_model_member_sorted(y, p, q) ==
    { [y |-> sort(y), p |-> p, q |-> q, n |-> Len(y), r |-> fmax(p, q),
       mu |-> ms[1], sigma |-> ms[2]] :
         ms \in UNION { { <<m, sg>> : sg \in scale(Centred(sort(y), m)) } :
                          m \in median(y) } }

\* The objects an arma_model constructor call can produce for (y, p, q).
\* The constructor has no validation and no failure path.  Inside its body
\* y names the by-value parameter, so median sorts the parameter in place
\* and the member y keeps the order of the input.
arma_model(y, p, q) ==
    { [y |-> y, p |-> p, q |-> q, n |-> Len(y), r |-> fmax(p, q),
       mu |-> ms[1], sigma |-> ms[2]] :
         ms \in UNION { { <<m, sg>> : sg \in scale(Centred(sort(y), m)) } :
                          m \in median(y) } }

\* Parameter vectors.  Point(k, p, q) is the parameter triple all of whose
\* coordinates are k: phi of length p, theta of length q and the scalar mu.
Point(k, p, q) ==
    [phi |-> [i \in 1..p |-> k], theta |-> [i \in 1..q |-> k], mu |-> k]

\* Parameter points matter to the wiring only up to identity: 0 names the
\* Hannan-Rissanen point, 1 any other point the optimizer may leave.
ParamVals == {0, 1}

Costs == 0..MaxCost

\* arma_fit: model is the arma_model object the reference member is bound
\* to; the two std::optional members are sequences of length 0 or 1.
arma_fit(modelRef, params, result, initial_params, initial_result) ==
    [model |-> modelRef, params |-> params, result |-> result,
     initial_params |-> initial_params, initial_result |-> initial_result]

NoParams == [phi |-> <<>>, theta |-> <<>>, mu |-> 0]

NoResult == [method |-> "none", convergence |-> FALSE, final_cost |-> 0]

NoFit == arma_fit("none", NoParams, NoResult, <<>>, <<>>)

NoModel ==
    [y |-> <<>>, p |-> 0, q |-> 0, n |-> 0, r |-> 0, mu |-> 0, sigma |-> "zero"]

NoSigma == -1

\* ---------------------------------------------------- estimation_result.hpp
\* std::fixed << std::setprecision(precision) << std::setw(width) << val, for
\* a value the model carries as an integer: the digits written are those of
\* val * 10^precision, the last `precision` of them after the point.
format_number(val, precision, width) ==
    [digits |-> val * (10 ^ precision), decimals |-> precision, width |-> width]

\* operator<<(os, estimation_result): the fields written, in order
print_result(r) ==
    << [section |-> "estimation method", text |-> r.method],
       [section |-> "convergence",
        text |-> IF r.convergence THEN "TRUE" ELSE "FALSE"],
       [section |-> "final cost", text |-> format_number(r.final_cost, 4, 18)] >>

\* The block of three parameter lines written under a heading
print_params(heading, prefix, params) ==
    << [section |-> heading, text |-> heading],
       [section |-> prefix \o "phi",
        text |-> [i \in 1..Len(params.phi) |-> format_number(params.phi[i], 4, 8)]],
       [section |-> prefix \o "theta",
        text |-> [i \in 1..Len(params.theta) |-> format_number(params.theta[i], 4, 8)]],
       [section |-> prefix \o "mu", text |-> format_number(params.mu, 4, 8)] >>

\* operator<<(os, arma_fit): everything written to the stream, in order
print_fit(f) ==
    << [section |-> "title", text |-> "ARMA estimation summary"] >>
    \o (IF f.initial_params # <<>>
        THEN print_params("Initial values", "initial ", f.initial_params[1])
        ELSE <<>>)
    \o print_result(f.result)
    \o print_params("Estimated parameters", "", f.params)

\* ------------------------------------------------------------------ hr.hpp
\* Variant: the closed-form result marked as not converged
hannan_rissanen_result_unconverged ==
    [method |-> "hannan_rissanen", convergence |-> FALSE, final_cost |-> 0]

\* estimation_result(estimation_method::hannan_rissanen, true, 0.0)
hannan_rissanen_result ==
    [method |-> "hannan_rissanen", convergence |-> TRUE, final_cost |-> 0]

\* hannan_rissanen(arma_model model): the model is taken by value, and the
\* returned arma_fit binds its reference member to that parameter object
\* (arg).  The two least-squares stages are closed-form, a function of the
\* series alone: every call on the same model yields the same point, which
\* the model names 0.
hannan_rissanen(arg, mdl) ==
    arma_fit(arg, Point(0, mdl.p, mdl.q), hannan_rissanen_result, <<>>, <<>>)

\* ------------------------------------------------------------- logging.hpp
\* Variant: the initialization without the guard flag's test
disable_ceres_logging_unguarded(flag, glog) ==
    [initialized |-> TRUE,
     logging |-> [init_calls |-> glog.init_calls + 1, minloglevel |-> 3,
                  logtostderr |-> 0]]

\* disable_ceres_logging(): flag is the function-local static initialized,
\* glog the state of the logging subsystem; yields both after the call.
disable_ceres_logging(flag, glog) ==
    IF ~flag
    THEN [initialized |-> TRUE,
          logging |-> [init_calls |-> glog.init_calls + 1, minloglevel |-> 3,
                       logtostderr |-> 0]]
    ELSE [initialized |-> flag, logging |-> glog]

\* -------------------------------------------------------------- solver.hpp
TerminationTypes ==
    {"CONVERGENCE", "NO_CONVERGENCE", "FAILURE", "USER_SUCCESS", "USER_FAILURE"}

\* Addresses.  phi_data and theta_data are the heap buffers of the two
\* Eigen vectors of opt_params, mu is the mu member of opt_params, empty is
\* the function-local static array of length 0.
get_pointers(params) ==
    [phi   |-> IF Len(params.phi) # 0 THEN "phi_data" ELSE "empty",
     theta |-> IF Len(params.theta) # 0 THEN "theta_data" ELSE "empty",
     mu    |-> "mu"]

\* The memory of opt_params as seen through those addresses
MemoryOf(params) ==
    [a \in {"phi_data", "theta_data", "mu", "empty"} |->
        CASE a = "phi_data"   -> params.phi
          [] a = "theta_data" -> params.theta
          [] a = "mu"         -> <<params.mu>>
          [] OTHER            -> <<>>]

\* The optimizer stores len values v through the block address a
Store(mem, a, len, v) ==
    IF len > 0 THEN [mem EXCEPT ![a] = [i \in 1..len |-> v]] ELSE mem

\* Eigen::Map<VectorXd>(a, len)
Load(mem, a, len) == [i \in 1..len |-> mem[a][i]]

\* Variant: summary.IsSolutionUsable() in place of the strict test
success_if_usable(termination_type) ==
    termination_type \in {"CONVERGENCE", "NO_CONVERGENCE", "USER_SUCCESS"}

\* success = (summary.termination_type == CONVERGENCE)
success(termination_type) == termination_type = "CONVERGENCE"

\* What ceres::Solve leaves in summary.final_cost for a problem with one
\* scalar residual r and no loss function: r^2 / 2 at the final point
\* (rounded down to the integer grid of the model).
summary_final_cost(r) == (r * r) \div 2

\* Variant: the result takes summary.final_cost
final_cost_from_summary(evaluated_cost, summary_cost) == summary_cost

\* The cost stored in the result: the value cost_function->Evaluate wrote,
\* not the optimizer's summary.final_cost.
final_cost(evaluated_cost, summary_cost) == evaluated_cost

\* arma_params(phi, model.p, theta, model.q, mu): read back through the
\* three block addresses
arma_params(mem, ptr, p, q) ==
    [phi |-> Load(mem, ptr.phi, p), theta |-> Load(mem, ptr.theta, q),
     mu |-> mem[ptr.mu][1]]

\* The arma_fit objects a call of solve involves: the caller's fit (the
\* argument), solve's by-value parameter `initial`, and the local opt_params
FitObjects == {"argument", "initial", "opt_params"}

\* `const arma_fit initial`: the parameter is an object of its own,
\* copy-constructed from the argument
initial_parameter(argument) == "initial"

\* Variant: arma_fit &opt_params = initial (a second name for the parameter)
opt_params_reference(initial) == initial

\* arma_fit opt_params = initial: a new object, copy-constructed (the Eigen
\* vectors of its params own their buffers)
opt_params_copy(initial) == "opt_params"

\* The params of the object whose buffers mem is, after the stores
ParamsOf(mem, params) ==
    [phi   |-> IF Len(params.phi) # 0 THEN mem["phi_data"] ELSE <<>>,
     theta |-> IF Len(params.theta) # 0 THEN mem["theta_data"] ELSE <<>>,
     mu    |-> mem["mu"][1]]

\* solve(model, initial, method, cost_function, options).
\*   modelRef         the object solve's model reference is bound to
\*   initial          the value of the caller's fit when solve is called
\*   termination_type, k   what ceres::Solve does: how it terminates and
\*                    the point it leaves in the blocks
\*   cost             the value Evaluate writes for the blocks
\* Returns the fit together with the locals the claims are about and the
\* caller's fit as the call leaves it.
solve(modelRef, mdl, initial, method, cost_function, termination_type, k, cost) ==
    LET parameter == initial_parameter("argument")
        opt_params == opt_params_copy(parameter)
        heap0 == [o \in FitObjects |-> initial]
        ptr  == get_pointers(heap0[opt_params].params)
        mem0 == MemoryOf(heap0[opt_params].params)
        mem1 == Store(Store(Store(mem0, ptr.phi, mdl.p, k),
                            ptr.theta, mdl.q, k), ptr.mu, 1, k)
        heap1 == [heap0 EXCEPT ![opt_params].params =
                                   ParamsOf(mem1, heap0[opt_params].params)]
        at     == arma_params(mem1, ptr, mdl.p, mdl.q)
        summary_cost == summary_final_cost(cost)
        result == [method |-> method,
                   convergence |-> success(termination_type),
                   final_cost |-> final_cost(cost, summary_cost)]
        params == arma_params(mem1, ptr, mdl.p, mdl.q)
    IN  [fit |-> arma_fit(modelRef, params, result,
                          <<heap1[parameter].params>>,
                          <<heap1[parameter].result>>),
         argument |-> heap1["argument"],
         ptrs |-> ptr,
         summary |-> [termination_type |-> termination_type,
                      final_cost |-> summary_cost],
         evaluated |-> [cost_function |-> cost_function, at |-> at,
                        cost |-> cost]]

\* ---------------------------------------------------------- estimators.hpp
\* The cost functional objects: kind is the functor type, sigma the private
\* sigma member of mm::cost and bmm::cost (NoSigma for the others).
CostFunction(kind, sigma) == [kind |-> kind, sigma |-> sigma]

\* Variant: sigma read from the initial result nested in the S fit
mm_sigma_from_initial_result(initial) == initial.initial_result[1].final_cost

\* estimators::mm: double sigma = initial.result.final_cost
mm_sigma(initial) == initial.result.final_cost

\* Variant: fmax in place of fmin
bip_mm_sigma_fmax(s_mm, s_bmm) ==
    fmax(s_mm.result.final_cost, s_bmm.result.final_cost)

\* bip_mm step 2: sigma = fmin(s_mm.final_cost, s_bmm.final_cost)
bip_mm_sigma(s_mm, s_bmm) == fmin(s_mm.result.final_cost, s_bmm.result.final_cost)

\* Variant: the comparison reversed
bip_mm_select_larger(fit_mm, fit_bmm) ==
    IF fit_mm.result.final_cost > fit_bmm.result.final_cost
    THEN fit_mm ELSE fit_bmm

\* bip_mm: return (m < mb) ? fit_mm : fit_bmm
bip_mm_select(fit_mm, fit_bmm) ==
    IF fit_mm.result.final_cost < fit_bmm.result.final_cost
    THEN fit_mm ELSE fit_bmm

EntryPoints ==
    {"hannan_rissanen", "ols", "mle", "ftau", "s", "mm", "bip_s", "bip_mm"}

\* The estimators that run Hannan-Rissanen and then one solve
HRThenSolve == {"ols", "mle", "ftau", "s", "bip_s"}

\* estimation_method tag passed to solve by each of them
MethodTag(ep) == IF ep = "bip_s" THEN "bs" ELSE ep

\* ------------------------------------------------------------ simulate.hpp
\* phi and theta are carried as integers in units of 1/CoefDen; a
\* polynomial is the sequence of its coefficients, constant term first,
\* in the same units (the roots do not depend on the unit).

\* sqrt(D) > t and sqrt(D) < t for an integer D >= 0
SqrtGreater(D, t) == (t < 0) \/ (D > t * t)

SqrtLess(D, t) == (t > 0) /\ (D < t * t)

\* (roots.array().abs() > 1.0).all() for the two roots of
\* c0 + c1 z + c2 z^2 with c2 # 0.  A complex pair has |z|^2 = c0/c2; the
\* real roots are (-c1 +- sqrt(D)) / (2 c2).
quadratic_roots_outside(c0, c1, c2) ==
    LET D == c1 * c1 - 4 * c0 * c2
        A == 2 * Abs(c2)
    IN  IF D < 0
        THEN Abs(c0) > Abs(c2)
        ELSE /\ SqrtGreater(D, A + c1) \/ SqrtLess(D, c1 - A)
             /\ SqrtLess(D, - c1 - A) \/ SqrtGreater(D, A - c1)

\* solver.compute(coeff); roots = solver.roots();
\* return (roots.array().abs() > 1.0).all()
\* Eigen's PolynomialSolver requires a non-zero leading coefficient.  When
\* it is zero a build with assertions aborts in compute; a build without
\* them divides by it: for size 2 the one root is -c0/0, infinite, and the
\* test holds; for a larger size the companion matrix holds non-finite
\* entries and what the test yields on its eigenvalues is fixed by the
\* build but not specified.
roots_outside(coeff, build) ==
    LET size == Len(coeff)
    IN  IF coeff[size] = 0
        THEN IF build.assertions THEN "abort"
             ELSE IF size = 2 THEN "true"
             ELSE build.nonfinite_outside
        ELSE IF size = 2
             THEN IF Abs(coeff[1]) > Abs(coeff[2]) THEN "true" ELSE "false"
             ELSE IF quadratic_roots_outside(coeff[1], coeff[2], coeff[3])
                  THEN "true" ELSE "false"

\* stationary(ar): coeff << 1, -ar
stationary(ar, build) ==
    roots_outside(<<CoefDen>> \o [i \in 1..Len(ar) |-> - ar[i]], build)

\* invertible(ma): coeff << 1, ma
invertible(ma, build) == roots_outside(<<CoefDen>> \o ma, build)

\* Variant: the generator is always seeded from the clock
seed_used_clock(seed, now) == now

\* if (seed == 0) seed = static_cast<int>(std::time(nullptr));
seed_used(seed, now) == IF seed = 0 THEN now ELSE seed

\* Eigen::Rand::normal<VectorXd>(nn, 1, urng) with urng seeded `seed`: the
\* first nn draws of that generator, each named by generator and position.
normal(nn, seed) == [i \in 1..nn |-> [urng |-> seed, draw |-> i]]

NoSeries == <<>>

\* What a simulate call leaves behind: the exception it raised (or none),
\* how many values it drew from the generator, the series it returned.
Outcome(raised, what, drawn, x) ==
    [raised |-> raised, what |-> what, drawn |-> drawn, x |-> x]

\* simulate(phi, theta, mu, n, burn_in, seed) called when the clock reads
\* now.  The returned series x.tail(n) is a function of phi, theta, mu and
\* the innovations e; it is kept as that term.
simulate(phi, theta, mu, n, burn_in, seed, now, build) ==
    LET seed1 == seed_used(seed, now)
        nn == burn_in + n
        p == Len(phi)
        q == Len(theta)
        st == IF p > 0 THEN stationary(phi, build) ELSE "true"
        inv == IF q > 0 THEN invertible(theta, build) ELSE "true"
    IN  IF st = "abort" THEN Outcome("abort", "eigen_assert", 0, NoSeries)
        ELSE IF st = "false"
        THEN Outcome("invalid_argument",
                     "AR parameters must specify a stationary process.",
                     0, NoSeries)
        ELSE IF inv = "abort" THEN Outcome("abort", "eigen_assert", 0, NoSeries)
        ELSE IF inv = "false"
        THEN Outcome("invalid_argument",
                     "MA parameters must specify an invertible process.",
                     0, NoSeries)
        ELSE Outcome("none", "", nn,
                     [tail |-> n, phi |-> phi, theta |-> theta, mu |-> mu,
                      e |-> normal(nn, seed1)])

\* ------------------------------------------------------------------- state
VARIABLES
    constructed,   \* an arma_model object exists in the caller
    model,         \* the caller's arma_model
    alive,         \* the arma_model objects whose lifetime has not ended
    initialized,   \* logging.hpp: static bool initialized
    entry,         \* the public entry point being executed
    pc,            \* position inside it
    loc,           \* its locals (and those of the estimators it calls)
    fit,           \* the arma_fit the latest solve returned
    ptrs,          \* solve: phi, theta, mu from get_pointers
    summary,       \* solve: ceres::Solver::Summary
    evaluated,     \* solve: the cost_function->Evaluate call, its blocks and value
    solves,        \* the method tags of the solve calls made so far, in order
    ret,           \* the arma_fit the entry point returned to its caller
    logging,       \* glog: InitGoogleLogging calls made, FLAGS_minloglevel, FLAGS_logtostderr
    frame,         \* the library routine being executed: its arguments and locals
    time,          \* the clock std::time(nullptr) reads
    sim            \* the simulate calls completed so far: arguments and outcome

\* The state the library routines outside the estimators work on
library == <<frame, time, sim>>

\* The state of the caller's model and of the estimators
estimators == <<constructed, model, alive, initialized, entry, pc, loc, fit,
                ptrs, summary, evaluated, solves, ret, logging>>

vars == <<constructed, model, alive, initialized, entry, pc, loc, fit, ptrs,
          summary, evaluated, solves, ret, logging, library>>

pipeline == <<alive, initialized, entry, pc, loc, fit, ptrs, summary,
              evaluated, solves, ret, logging, library>>

\* glog before any call of the library: nothing initialized, default flags
NoLogging == [init_calls |-> 0, minloglevel |-> 0, logtostderr |-> 0]

NoFrame == [fn |-> "none"]

NoLoc ==
    [initial |-> NoFit, mm_initial |-> NoFit, s_mm |-> NoFit, s_bmm |-> NoFit,
     sigma |-> NoSigma, fit_mm |-> NoFit, fit_bmm |-> NoFit]

NoPtrs == [phi |-> "none", theta |-> "none", mu |-> "none"]

NoSummary == [termination_type |-> "none", final_cost |-> 0]

NoEvaluated ==
    [cost_function |-> CostFunction("none", NoSigma), at |-> NoParams, cost |-> 0]

Idle ==
    /\ alive = {}
    /\ initialized = FALSE
    /\ entry = "none"
    /\ pc = "ready"
    /\ loc = NoLoc
    /\ fit = NoFit
    /\ ptrs = NoPtrs
    /\ summary = NoSummary
    /\ evaluated = NoEvaluated
    /\ solves = <<>>
    /\ ret = NoFit
    /\ logging = NoLogging

\* ------------------------------------------------- construction (SpecModel)
Values == (0..MaxVal) \cup {Inf}

Series == UNION {[1..len -> Values] : len \in 1..MaxN}

Orders == (-1)..MaxOrder

InitModel ==
    /\ constructed = FALSE
    /\ model = NoModel
    /\ Idle
    /\ frame = NoFrame
    /\ time = 0
    /\ sim = <<>>

\* robarma::arma_model m(y, p, q)
Construct(y, p, q) ==
    /\ ~constructed
    /\ model' \in arma_model(y, p, q)
    /\ constructed' = TRUE
    /\ UNCHANGED pipeline

\* the object goes out of scope
Destroy ==
    /\ constructed
    /\ constructed' = FALSE
    /\ model' = NoModel
    /\ UNCHANGED pipeline

NextModel ==
    \/ \E y \in Series, p \in Orders, q \in Orders : Construct(y, p, q)
    \/ Destroy

SpecModel == InitModel /\ [][NextModel]_vars

\* --------------------------------------------------------- pipeline (Spec)
\* The models the estimators are run on: every order pair in PipelineOrders,
\* with a series long enough for both least-squares stages of
\* Hannan-Rissanen (n >= m + rr rows).
PipelineOrders == {0, 1}

HRLength(p, q) == fmax(2 * p + 1, 2 * q + 1) + fmax(p + 1, q + 1) + 1

Ramp(len) == [i \in 1..len |-> i % (MaxVal + 1)]

Init ==
    /\ constructed = TRUE
    /\ \E p \in PipelineOrders, q \in PipelineOrders :
         model \in arma_model(Ramp(HRLength(p, q)), p, q)
    /\ alive = {"caller"}
    /\ initialized = FALSE
    /\ entry = "none"
    /\ pc = "ready"
    /\ loc = NoLoc
    /\ fit = NoFit
    /\ ptrs = NoPtrs
    /\ summary = NoSummary
    /\ evaluated = NoEvaluated
    /\ solves = <<>>
    /\ ret = NoFit
    /\ logging = NoLogging
    /\ frame = NoFrame
    /\ time = 0
    /\ sim = <<>>

\* The caller invokes a public entry point on its model.  Every entry point
\* begins, directly or through estimators::s, with hannan_rissanen(model).
Call(ep) ==
    /\ pc = "ready"
    /\ entry' = ep
    /\ pc' = "hr"
    /\ UNCHANGED <<constructed, model, alive, initialized, loc, fit, ptrs,
                   summary, evaluated, solves, ret, logging, library>>

\* hannan_rissanen is entered: the argument is copied into the by-value
\* parameter, the body runs and constructs the returned arma_fit.
HannanRissanen ==
    /\ pc \in {"hr", "hr2"}
    /\ alive' = alive \cup {"hr_arg"}
    /\ loc' = [loc EXCEPT !.initial = hannan_rissanen("hr_arg", model)]
    /\ pc' = IF pc = "hr" THEN "hr_ret" ELSE "hr2_ret"
    /\ UNCHANGED <<constructed, model, initialized, entry, fit, ptrs, summary,
                   evaluated, solves, ret, logging, library>>

\* hannan_rissanen returns: its parameter object is destroyed.
HannanRissanenReturn ==
    /\ pc \in {"hr_ret", "hr2_ret"}
    /\ alive' = alive \ {"hr_arg"}
    /\ IF entry = "hannan_rissanen"
       THEN /\ ret' = loc.initial
            /\ pc' = "ret"
       ELSE /\ ret' = ret
            /\ pc' = IF pc = "hr_ret" THEN "solve" ELSE "solve2"
    /\ UNCHANGED <<constructed, model, initialized, entry, loc, fit, ptrs,
                   summary, evaluated, solves, logging, library>>

\* What one call of solver::solve with the caller's model can do, given
\* the initial fit, method tag and cost functional: one outcome for every
\* way the optimizer can terminate, point it can leave and cost it can find.
SolveOutcomes(initial, method, cost_function) ==
    { solve("caller", model, initial, method, cost_function,
            termination_type, k, cost) :
        termination_type \in TerminationTypes, k \in ParamVals, cost \in Costs }

\* One call of solver::solve as made at position pc, with outcome s
Solve(s) ==
    LET d == disable_ceres_logging(initialized, logging)
    IN  /\ initialized' = d.initialized
        /\ logging' = d.logging
        /\ fit' = s.fit
        /\ ptrs' = s.ptrs
        /\ summary' = s.summary
        /\ evaluated' = s.evaluated
        /\ solves' = Append(solves, s.fit.result.method)

\* The solve of ols, mle, ftau, s or bip_s, called directly or (s, bip_s)
\* from estimators::mm and bip_mm.  loc.initial is the fit handed to solve,
\* as the call leaves it.
SolveInitial ==
    /\ pc \in {"solve", "solve2"}
    /\ LET stage == IF entry \in HRThenSolve THEN entry
                    ELSE IF pc = "solve" THEN "s" ELSE "bip_s"
       IN  \E s \in SolveOutcomes(loc.initial, MethodTag(stage),
                                  CostFunction(MethodTag(stage), NoSigma)) :
             /\ Solve(s)
             /\ CASE entry \in HRThenSolve ->
                        /\ ret' = s.fit
                        /\ pc' = "ret"
                        /\ loc' = [loc EXCEPT !.initial = s.argument]
                   [] entry = "mm" ->
                        /\ ret' = ret
                        /\ pc' = "sigma"
                        /\ loc' = [loc EXCEPT !.initial = s.argument,
                                              !.mm_initial = s.fit]
                   [] entry = "bip_mm" /\ pc = "solve" ->
                        /\ ret' = ret
                        /\ pc' = "hr2"
                        /\ loc' = [loc EXCEPT !.initial = s.argument,
                                              !.s_mm = s.fit]
                   [] OTHER ->
                        /\ ret' = ret
                        /\ pc' = "sigma"
                        /\ loc' = [loc EXCEPT !.initial = s.argument,
                                              !.s_bmm = s.fit]
    /\ UNCHANGED <<constructed, model, alive, entry, library>>

\* The scale handed to the MM and BMM cost functionals: estimators::mm
\* reads it from the S fit, bip_mm (step 2) from the S and BIP-S fits.
Sigma ==
    /\ pc = "sigma"
    /\ loc' = [loc EXCEPT !.sigma = IF entry = "mm"
                                    THEN mm_sigma(loc.mm_initial)
                                    ELSE bip_mm_sigma(loc.s_mm, loc.s_bmm)]
    /\ pc' = "solve_mm"
    /\ UNCHANGED <<constructed, model, alive, initialized, entry, fit, ptrs,
                   summary, evaluated, solves, ret, logging, library>>

\* The MM solve: estimators::mm, or mm::mm called from bip_mm.  The fit
\* handed to solve is the S fit, left as the call leaves it.
SolveMM ==
    /\ pc = "solve_mm"
    /\ \E s \in SolveOutcomes(IF entry = "mm" THEN loc.mm_initial ELSE loc.s_mm,
                               "mm", CostFunction("mm", loc.sigma)) :
         /\ Solve(s)
         /\ IF entry = "mm"
            THEN /\ ret' = s.fit
                 /\ pc' = "ret"
                 /\ loc' = [loc EXCEPT !.mm_initial = s.argument]
            ELSE /\ ret' = ret
                 /\ pc' = "solve_bmm"
                 /\ loc' = [loc EXCEPT !.s_mm = s.argument, !.fit_mm = s.fit]
    /\ UNCHANGED <<constructed, model, alive, entry, library>>

\* The BMM solve (bmm::bmm called from bip_mm) and the selection that
\* follows it: return (m < mb) ? fit_mm : fit_bmm
SolveBMM ==
    /\ pc = "solve_bmm"
    /\ \E s \in SolveOutcomes(loc.s_bmm, "bmm", CostFunction("bmm", loc.sigma)) :
         /\ Solve(s)
         /\ loc' = [loc EXCEPT !.s_bmm = s.argument, !.fit_bmm = s.fit]
         /\ ret' = bip_mm_select(loc.fit_mm, s.fit)
         /\ pc' = "ret"
    /\ UNCHANGED <<constructed, model, alive, entry, library>>

\* The caller is done with the returned fit: the frame of the call and the
\* fit are gone, the process is ready for the next call.
Return ==
    /\ pc = "ret"
    /\ pc' = "ready"
    /\ entry' = "none"
    /\ loc' = NoLoc
    /\ fit' = NoFit
    /\ ptrs' = NoPtrs
    /\ summary' = NoSummary
    /\ evaluated' = NoEvaluated
    /\ solves' = <<>>
    /\ ret' = NoFit
    /\ UNCHANGED <<constructed, model, alive, initialized, logging, library>>

Next ==
    \/ \E ep \in EntryPoints : Call(ep)
    \/ HannanRissanen
    \/ HannanRissanenReturn
    \/ SolveInitial
    \/ Sigma
    \/ SolveMM
    \/ SolveBMM
    \/ Return

Spec == Init /\ [][Next]_vars

\* --------------------------------------------- robust.hpp (SpecRobust)
\* Calls of the robust primitives scale and MADN on short vectors, with
\* one entry value of each class: zero, finite and not zero, infinite.
Vectors == UNION {[1..len -> {0, 1, Inf}] : len \in 1..MaxLen}

InitRobust ==
    /\ constructed = FALSE
    /\ model = NoModel
    /\ Idle
    /\ frame = NoFrame
    /\ time = 0
    /\ sim = <<>>

\* No primitive has been called yet: a behaviour follows one call
NoCall == frame = NoFrame

\* scale(x, b, func) is entered: lines 78-86
ScaleCall(x, rho) ==
    /\ NoCall
    /\ \E s0 \in scale_sigma_0(x) :
         frame' = [fn |-> "scale", x |-> x, rho |-> rho, sigma_0 |-> s0,
                   err |-> "large", i |-> 0, pc |-> "loop", result |-> "none"]
    /\ UNCHANGED <<estimators, time, sim>>

\* One pass through the loop body: lines 88-94
ScaleUpdate ==
    /\ frame.fn = "scale"
    /\ frame.pc = "loop"
    /\ scale_continues(frame.err, frame.i, 100)
    /\ LET sigma_1 == scale_sigma_1(frame.x, frame.rho, frame.sigma_0)
       IN  \E err \in scale_err(sigma_1, frame.sigma_0) :
              frame' = [frame EXCEPT !.i = frame.i + 1, !.err = err,
                                     !.sigma_0 = sigma_1]
    /\ UNCHANGED <<estimators, time, sim>>

\* The loop test fails: return sigma_0
ScaleReturn ==
    /\ frame.fn = "scale"
    /\ frame.pc = "loop"
    /\ ~ scale_continues(frame.err, frame.i, 100)
    /\ frame' = [frame EXCEPT !.pc = "done", !.result = frame.sigma_0]
    /\ UNCHANGED <<estimators, time, sim>>

\* MADN(x), the whole call
MADNCall(x) ==
    /\ NoCall
    /\ \E mad \in MAD(x) :
         frame' = [fn |-> "MADN", x |-> x, mad |-> mad, pc |-> "done",
                   result |-> Over(mad, 675, 1000)]
    /\ UNCHANGED <<estimators, time, sim>>

NextRobust ==
    \/ \E x \in Vectors, rho \in ScaleRhos : ScaleCall(x, rho)
    \/ ScaleUpdate
    \/ ScaleReturn
    \/ \E x \in Vectors : MADNCall(x)

SpecRobust == InitRobust /\ [][NextRobust]_vars

\* A call that has been entered runs on: the loop and the return are not
\* suspended forever
SpecRobustFair == SpecRobust /\ WF_vars(ScaleUpdate \/ ScaleReturn)

\* ------------------------------------------------- mle.hpp (SpecKalman)
\* The Kalman filter of mle::cost for state dimension r = 1 (p <= 1, q = 0),
\* where a, P, F, H, c and z = (1) are scalars.

\* predict: a = F * a + c, P = F * P * F' + H * H'
predict(a, P, F, H, c) ==
    [a |-> FAdd(FMul(F, a), c), P |-> FAdd(FMul(FMul(F, P), F), FMul(H, H))]

\* update: a = a + P * z * v / f, P = P - (P * z * z' * P) / f; the
\* local epsilon is assigned and not read
update(a, P, v, f) ==
    [a |-> FAdd(a, FDiv(FMul(P, v), f)),
     P |-> FSub(P, FDiv(FMul(P, P), f)),
     epsilon |-> "unused",
     divisor |-> f]

\* F0(phi) for r = 1: (phi_1) when p = 1, (0) when p = 0
F0(phi) == IF Len(phi) = 0 THEN Int2F(0) ELSE Int2F(phi[1])

\* H0(theta) for r = 1, q = 0: (1)
H0 == Int2F(1)

\* P0(F, H) for r = 1: the solution of (1 - F * F) * P0 = H * H that the
\* QR solve returns, V / S (not finite when S = 0)
P0(F, H) == FDiv(FMul(H, H), FSub(Int2F(1), FMul(F, F)))

\* c0(phi, mu): c(0) = mu * (1 - sum(phi))
c0(phi, mu) == FMul(Int2F(mu), FSub(Int2F(1), F0(phi)))

RECURSIVE SumF(_)
SumF(v) == IF Len(v) = 0 THEN Int2F(0) ELSE FAdd(v[1], SumF(Tail(v)))

\* autocov_matrix(y, 1, 1): the sample variance sum((y - mean)^2) / N
autocov_matrix(y) ==
    LET N   == Int2F(Len(y))
        avg == FDiv(SumF([i \in 1..Len(y) |-> Int2F(y[i])]), N)
        yc  == [i \in 1..Len(y) |-> FSub(Int2F(y[i]), avg)]
    IN  FDiv(SumF([i \in 1..Len(y) |-> FMul(yc[i], yc[i])]), N)

KalmanInputs == { Int2F(k) : k \in (-KalmanVal)..KalmanVal }

KalmanSeries == UNION {[1..len -> 0..MaxVal] : len \in 1..MaxLen}

InitKalman ==
    /\ constructed = FALSE
    /\ model = NoModel
    /\ Idle
    /\ frame = NoFrame
    /\ time = 0
    /\ sim = <<>>

\* update(a, P, v, f, z), a public member, called on its own
UpdateCall(a, P, v, f) ==
    /\ frame = NoFrame
    /\ frame' = [fn |-> "update", pc |-> "done", a0 |-> a, P0 |-> P, v |-> v,
                 f |-> f, out |-> update(a, P, v, f)]
    /\ UNCHANGED <<estimators, time, sim>>

\* operator() is entered: lines 43-58
MLECall(phi, mu, y) ==
    /\ frame = NoFrame
    /\ frame' = [fn |-> "mle", pc |-> "loop", phi |-> phi, mu |-> mu, y |-> y,
                 i |-> 0, a |-> Int2F(0), P |-> autocov_matrix(y),
                 f |-> Int2F(1), v |-> Int2F(0), S |-> Int2F(0),
                 divisor |-> Int2F(1)]
    /\ UNCHANGED <<estimators, time, sim>>

\* One pass through the filter loop: lines 60-67.  w(i) is carried by its
\* square v^2 / f, summed into S as loss does.
FilterStep ==
    /\ frame.fn = "mle"
    /\ frame.pc = "loop"
    /\ frame.i < Len(frame.y)
    /\ LET pr == predict(frame.a, frame.P, F0(frame.phi), H0, c0(frame.phi, frame.mu))
           f  == pr.P
           v  == FSub(Int2F(frame.y[frame.i + 1]), pr.a)
           up == update(pr.a, pr.P, v, f)
       IN  frame' = [frame EXCEPT !.i = frame.i + 1, !.a = up.a, !.P = up.P,
                                  !.f = f, !.v = v, !.divisor = up.divisor,
                                  !.S = FAdd(frame.S, FDiv(FMul(v, v), f))]
    /\ UNCHANGED <<estimators, time, sim>>

\* The loop is over: residuals[0] = loss(w, f), return true
MLEReturn ==
    /\ frame.fn = "mle"
    /\ frame.pc = "loop"
    /\ frame.i = Len(frame.y)
    /\ frame' = [frame EXCEPT !.pc = "done"]
    /\ UNCHANGED <<estimators, time, sim>>

NextKalman ==
    \/ \E a, P, v, f \in KalmanInputs : UpdateCall(a, P, v, f)
    \/ \E phi \in {<<>>, <<-1>>, <<0>>, <<1>>}, mu \in 0..1, y \in KalmanSeries : MLECall(phi, mu, y)
    \/ FilterStep
    \/ MLEReturn

SpecKalman == InitKalman /\ [][NextKalman]_vars

\* --------------------------------------- bip.hpp, tau.hpp (SpecRho)
\* The rho, psi and eta functions of Muler et al. (bip) and of Bianco et
\* al. (tau), evaluated exactly on fractions.

\* The decimal literal n / 10^k
Dec(n, k) == Rat(n, 10 ^ k)

\* bip::eta, the branch for 2 < |x| <= 3
bip_eta_middle(x) ==
    RatAdd(RatSub(RatMul(Dec(16, 3), RatPow(x, 7)), RatMul(Dec(312, 3), RatPow(x, 5))),
           RatSub(RatMul(Dec(1728, 3), RatPow(x, 3)), RatMul(Dec(1944, 3), x)))

\* Variant: eta without its bounded branches
bip_eta_unbounded(x) == x

bip_eta(x) ==
    IF RatLeq(RatAbs(x), Dec(2, 0)) THEN x
    ELSE IF RatLess(Dec(2, 0), RatAbs(x)) /\ RatLeq(RatAbs(x), Dec(3, 0)) THEN bip_eta_middle(x)
    ELSE Dec(0, 0)

\* bip::rho2, the branch for |x| <= 2
bip_rho2_inner(x) == RatMul(Dec(5, 1), RatPow(x, 2))

\* Variant: the constant term of the middle branch rounded to two decimals
bip_rho2_middle_rounded(x) ==
    RatAdd(RatAdd(RatSub(RatMul(Dec(2, 3), RatPow(x, 8)), RatMul(Dec(52, 3), RatPow(x, 6))),
                  RatSub(RatMul(Dec(432, 3), RatPow(x, 4)), RatMul(Dec(972, 3), RatPow(x, 2)))),
           Dec(179, 2))

\* bip::rho2, the branch for 2 < |x| <= 3
bip_rho2_middle(x) ==
    RatAdd(RatAdd(RatSub(RatMul(Dec(2, 3), RatPow(x, 8)), RatMul(Dec(52, 3), RatPow(x, 6))),
                  RatSub(RatMul(Dec(432, 3), RatPow(x, 4)), RatMul(Dec(972, 3), RatPow(x, 2)))),
           Dec(1792, 3))

bip_rho2(x) ==
    IF RatLeq(RatAbs(x), Dec(2, 0)) THEN bip_rho2_inner(x)
    ELSE IF RatLess(Dec(2, 0), RatAbs(x)) /\ RatLeq(RatAbs(x), Dec(3, 0)) THEN bip_rho2_middle(x)
    ELSE Dec(325, 2)

\* bip::rho1(x) = rho2(x / T(0.405))
bip_rho1(x) == bip_rho2(RatDiv(x, Dec(405, 3)))

\* tau::rho1, the branch for |x| <= c, in div = x / c
tau_rho1_inner(div) ==
    RatAdd(RatSub(RatMul(Dec(3, 0), RatPow(div, 2)), RatMul(Dec(3, 0), RatPow(div, 4))),
           RatPow(div, 6))

tau_rho1(x) ==
    LET c   == Dec(155, 2)
        div == RatDiv(x, c)
    IN  IF RatLeq(RatAbs(x), c) THEN tau_rho1_inner(div) ELSE Dec(1, 0)

\* tau::rho2, the branch for |x| <= c
tau_rho2_inner(x) ==
    RatSub(RatAdd(RatMul(Dec(14, 2), RatPow(x, 2)), RatMul(Dec(12, 3), RatPow(x, 4))),
           RatMul(Dec(18, 4), RatPow(x, 6)))

tau_rho2(x) ==
    LET c == Dec(28, 1)
    IN  IF RatLeq(RatAbs(x), c) THEN tau_rho2_inner(x) ELSE Dec(1, 0)

\* Variant: the clip value c returned on both sides
tau_psi_one_sided(x) ==
    LET c == Dec(155, 2)
    IN  IF RatLeq(RatAbs(x), c) THEN x ELSE c

tau_psi(x) ==
    LET c == Dec(155, 2)
    IN  IF RatLeq(RatAbs(x), c) THEN x
        ELSE IF RatLess(Dec(0, 0), x) THEN c ELSE RatNeg(c)

RhoFunctions == {"bip::eta", "bip::rho2", "bip::rho1", "tau::rho1", "tau::rho2", "tau::psi"}

\* The function named f applied to x
Apply(f, x) ==
    CASE f = "bip::eta"  -> bip_eta(x)
      [] f = "bip::rho2" -> bip_rho2(x)
      [] f = "bip::rho1" -> bip_rho1(x)
      [] f = "tau::rho1" -> tau_rho1(x)
      [] f = "tau::rho2" -> tau_rho2(x)
      [] f = "tau::psi"  -> tau_psi(x)

\* The boundaries between the branches of f, for x >= 0
Knots(f) ==
    CASE f = "bip::eta"  -> {Dec(2, 0), Dec(3, 0)}
      [] f = "bip::rho2" -> {Dec(2, 0), Dec(3, 0)}
      [] f = "bip::rho1" -> {RatMul(Dec(405, 3), Dec(2, 0)), RatMul(Dec(405, 3), Dec(3, 0))}
      [] f = "tau::rho1" -> {Dec(155, 2)}
      [] f = "tau::rho2" -> {Dec(28, 1)}
      [] f = "tau::psi"  -> {Dec(155, 2)}

\* The unit in which f scales its argument
Unit(f) ==
    CASE f = "bip::rho1" -> Dec(405, 3)
      [] f = "tau::rho1" -> Dec(155, 2)
      [] OTHER -> Dec(1, 0)

\* Arguments: the knots of f, and Unit(f) * k / GridDen up to 4 units, on
\* both sides of 0
Arguments(f) ==
    { RatMul(Unit(f), Rat(k, GridDen)) : k \in (-4 * GridDen)..(4 * GridDen) }
        \cup Knots(f) \cup { RatNeg(c) : c \in Knots(f) }

InitRho ==
    /\ constructed = FALSE
    /\ model = NoModel
    /\ Idle
    /\ \E f \in RhoFunctions : \E x \in Arguments(f) :
         frame = [fn |-> f, x |-> x, pc |-> "call", value |-> Dec(0, 0)]
    /\ time = 0
    /\ sim = <<>>

\* The call f(x)
RhoCall ==
    /\ frame.pc = "call"
    /\ frame' = [frame EXCEPT !.pc = "done", !.value = Apply(frame.fn, frame.x)]
    /\ UNCHANGED <<estimators, time, sim>>

NextRho == RhoCall

SpecRho == InitRho /\ [][NextRho]_vars

\* ------------------------------- arma.hpp residuals (SpecResiduals)
\* arma_residuals and bip_arma_residuals on exact fractions.  Vectors are
\* indexed from 0 in the code and from 1 here: entry i of the code is v[i + 1].

\* v.segment(start, len) lies inside v
segment_in_range(v, start, len) == start >= 0 /\ len >= 0 /\ start + len <= Len(v)

\* Variant: the segment taken in storage order
segment_forward(v, start, len) == [k \in 1..len |-> v[start + k]]

\* v.segment(start, len).reverse(): entries start + len - 1 down to start
segment_reverse(v, start, len) == [k \in 1..len |-> v[start + len - k + 1]]

RECURSIVE RatSum(_)
RatSum(v) == IF Len(v) = 0 THEN Dec(0, 0) ELSE RatAdd(v[1], RatSum(Tail(v)))

\* a.dot(b)
dot(a, b) == RatSum([k \in 1..Len(a) |-> RatMul(a[k], b[k])])

\* mu * (T(1) - phi.sum())
intercept(phi, mu) == RatMul(mu, RatSub(Dec(1, 0), RatSum(phi)))

\* The body of the loop of arma_residuals for index i: the value of e(i)
arma_residuals_body(m, phi, theta, mu, e, i) ==
    LET ar == dot(phi, segment_reverse(m.y, i - m.p, m.p))
        ma == dot(theta, segment_reverse(e, i - m.q, m.q))
    IN  RatSub(RatSub(RatSub(m.y[i + 1], intercept(phi, mu)), ar), ma)

\* bip::eta applied entry by entry
eta_vec(v) == [k \in 1..Len(v) |-> bip_eta(v[k])]

\* The body of the loop of bip_arma_residuals for index i: the value of e(i)
bip_arma_residuals_body(m, phi, theta, mu, sigma, e, i) ==
    LET yp  == segment_reverse(m.y, i - m.p, m.p)
        ep  == segment_reverse(e, i - m.p, m.p)
        eq  == segment_reverse(e, i - m.q, m.q)
        ar  == dot(phi, [k \in 1..m.p |-> RatSub(yp[k], ep[k])])
        _rq == [k \in 1..m.q |-> RatDiv(eq[k], sigma)]
        _rp == [k \in 1..m.p |-> RatDiv(ep[k], sigma)]
        rq  == dot(theta, [k \in 1..m.q |-> RatMul(sigma, eta_vec(_rq)[k])])
        rp  == dot(phi, [k \in 1..m.p |-> RatMul(sigma, eta_vec(_rp)[k])])
    IN  RatSub(RatSub(RatSub(RatSub(m.y[i + 1], intercept(phi, mu)), ar), rq), rp)

\* The segments one pass of either loop takes, and y(i), lie inside y and e
body_in_range(m, e, i) ==
    /\ segment_in_range(m.y, i - m.p, m.p)
    /\ segment_in_range(e, i - m.p, m.p)
    /\ segment_in_range(e, i - m.q, m.q)
    /\ segment_in_range(m.y, i, 1)

ResidualOrders == {<<0, 0>>, <<1, 0>>, <<0, 1>>, <<1, 1>>, <<2, 1>>, <<1, 2>>}

ResidualCoefs == {Dec(-1, 0), Dec(0, 0), Dec(5, 1)}

\* Series entries: 0..MaxVal and the outlier 5
ResidualValues == { Dec(v, 0) : v \in 0..MaxVal } \cup {Dec(5, 0)}

\* Series lengths: up to three entries, so that a residual passes through
\* the degree-7 branch of eta at most twice and stays exactly representable
ResidualLengths == 0..3

ResidualSigmas == {Dec(5, 1), Dec(2, 0)}

\* The members of an arma_model the residual functions read
ResidualModel(y, p, q) == [y |-> y, p |-> p, q |-> q, n |-> Len(y), r |-> fmax(p, q)]

InitResiduals ==
    /\ constructed = FALSE
    /\ model = NoModel
    /\ Idle
    /\ frame = NoFrame
    /\ time = 0
    /\ sim = <<>>

\* Vec<T> e = Vec<T>::Zero(n) and the loop's int i = r
ResidualsEntry(fn, m, phi, theta, mu, sigma) ==
    [fn |-> fn, pc |-> "loop", m |-> m, phi |-> phi, theta |-> theta, mu |-> mu,
     sigma |-> sigma, e |-> [k \in 1..m.n |-> Dec(0, 0)], i |-> m.r]

\* arma_residuals(phi, theta, mu) is entered
ArmaResidualsCall ==
    /\ frame = NoFrame
    /\ \E o \in ResidualOrders, len \in ResidualLengths, mu \in {Dec(0, 0), Dec(1, 0)} :
         \E y \in [1..len -> ResidualValues], phi \in [1..o[1] -> ResidualCoefs], theta \in [1..o[2] -> ResidualCoefs] :
            frame' = ResidualsEntry("arma_residuals", ResidualModel(y, o[1], o[2]), phi, theta, mu, Dec(1, 0))
    /\ UNCHANGED <<estimators, time, sim>>

\* bip_arma_residuals(phi, theta, mu, sigma) is entered
BipArmaResidualsCall ==
    /\ frame = NoFrame
    /\ \E o \in ResidualOrders, len \in ResidualLengths, mu \in {Dec(0, 0), Dec(1, 0)}, sigma \in ResidualSigmas :
         \E y \in [1..len -> ResidualValues], phi \in [1..o[1] -> ResidualCoefs], theta \in [1..o[2] -> ResidualCoefs] :
            frame' = ResidualsEntry("bip_arma_residuals", ResidualModel(y, o[1], o[2]), phi, theta, mu, sigma)
    /\ UNCHANGED <<estimators, time, sim>>

\* One pass of the loop for (int i = r; i < n; i++).  A segment outside
\* its vector is undefined behaviour: the call is left with no result.
ResidualsStep ==
    /\ frame.fn \in {"arma_residuals", "bip_arma_residuals"}
    /\ frame.pc = "loop"
    /\ frame.i < frame.m.n
    /\ IF body_in_range(frame.m, frame.e, frame.i)
       THEN LET ei == IF frame.fn = "arma_residuals"
                      THEN arma_residuals_body(frame.m, frame.phi, frame.theta, frame.mu, frame.e, frame.i)
                      ELSE bip_arma_residuals_body(frame.m, frame.phi, frame.theta, frame.mu, frame.sigma, frame.e, frame.i)
            IN  frame' = [frame EXCEPT !.e[frame.i + 1] = ei, !.i = frame.i + 1]
       ELSE frame' = [frame EXCEPT !.pc = "undefined"]
    /\ UNCHANGED <<estimators, time, sim>>

\* The loop is over: return e
ResidualsReturn ==
    /\ frame.fn \in {"arma_residuals", "bip_arma_residuals"}
    /\ frame.pc = "loop"
    /\ frame.i >= frame.m.n
    /\ frame' = [frame EXCEPT !.pc = "done"]
    /\ UNCHANGED <<estimators, time, sim>>

NextResiduals ==
    \/ ArmaResidualsCall
    \/ BipArmaResidualsCall
    \/ ResidualsStep
    \/ ResidualsReturn

SpecResiduals == InitResiduals /\ [][NextResiduals]_vars

\* ------------------------------------------- ts.hpp causal (SpecCausal)
\* causal(phi, theta) on integer coefficients.  Entry i of the code's
\* vectors is v[i + 1] here.

\* Vec<T>::Zero(len)
Zero(len) == [k \in 1..len |-> 0]

\* a.dot(b) for integer vectors
RECURSIVE idot(_, _)
idot(a, b) == IF Len(a) = 0 THEN 0 ELSE a[1] * b[1] + idot(Tail(a), Tail(b))

\* lambda and ma as the code sets them up before its loop: lambda(p) = 1,
\* ma.segment(k, q) = theta with k = p + 1
causal_entry(phi, theta, n) ==
    LET p == Len(phi)
        q == Len(theta)
        k == p + 1
    IN  [fn |-> "causal", pc |-> "loop", phi |-> phi, theta |-> theta, n |-> n,
         lambda |-> [Zero(n + p) EXCEPT ![p + 1] = 1],
         ma |-> [j \in 1..(n + p) |-> IF j - 1 >= k /\ j - 1 < k + q THEN theta[j - k] ELSE 0],
         i |-> k, result |-> <<>>]

\* lambda(i) = phi.dot(lambda.segment(i - p, p).reverse()) - ma(i)
causal_body(phi, lambda, ma, i) ==
    idot(phi, segment_reverse(lambda, i - Len(phi), Len(phi))) - ma[i + 1]

\* v.tail(len): the last len entries
tail(v, len) == [k \in 1..len |-> v[Len(v) - len + k]]

\* AR coefficient vectors whose causal weights stay bounded
CausalPhis == {<<>>, <<0>>, <<1>>, <<-1>>, <<0, 1>>, <<0, -1>>, <<1, -1>>, <<-1, -1>>}

CausalThetas == UNION {[1..q -> {-1, 0, 1}] : q \in 0..2}

InitCausal ==
    /\ constructed = FALSE
    /\ model = NoModel
    /\ Idle
    /\ frame = NoFrame
    /\ time = 0
    /\ sim = <<>>

\* causal(phi, theta) is entered, with its int n = 100
CausalCall(phi, theta) ==
    /\ frame = NoFrame
    /\ frame' = causal_entry(phi, theta, 100)
    /\ UNCHANGED <<estimators, time, sim>>

\* One pass of the loop for (size_t i = k; i < n; i++)
CausalStep ==
    /\ frame.fn = "causal"
    /\ frame.pc = "loop"
    /\ frame.i < frame.n
    /\ frame' = [frame EXCEPT !.lambda[frame.i + 1] = causal_body(frame.phi, frame.lambda, frame.ma, frame.i),
                              !.i = frame.i + 1]
    /\ UNCHANGED <<estimators, time, sim>>

\* The loop is over: return lambda.tail(n - 1)
CausalReturn ==
    /\ frame.fn = "causal"
    /\ frame.pc = "loop"
    /\ frame.i >= frame.n
    /\ frame' = [frame EXCEPT !.pc = "done", !.result = tail(frame.lambda, frame.n - 1)]
    /\ UNCHANGED <<estimators, time, sim>>

NextCausal ==
    \/ \E phi \in CausalPhis, theta \in CausalThetas : CausalCall(phi, theta)
    \/ CausalStep
    \/ CausalReturn

SpecCausal == InitCausal /\ [][NextCausal]_vars

\* --------------------------------------------------- simulate (SpecSimulate)
\* One set of arguments, fixed at the start, is passed to simulate up to
\* twice while the clock advances.  The build of the library (Eigen's
\* assertions on or off) is fixed for the run as well.
SimOrders == {<<0, 0>>, <<1, 0>>, <<0, 1>>, <<1, 1>>, <<2, 0>>, <<0, 2>>}

Coefs == (-MaxCoef)..MaxCoef

Builds == [assertions : BOOLEAN, nonfinite_outside : {"true", "false"}]

InitSimulate ==
    /\ constructed = FALSE
    /\ model = NoModel
    /\ Idle
    /\ \E o \in SimOrders, seed \in (-1)..MaxSeed, n \in 1..2, b \in Builds :
         \E phi \in [1..o[1] -> Coefs], theta \in [1..o[2] -> Coefs] :
            frame = [fn |-> "simulate", phi |-> phi, theta |-> theta, mu |-> 0,
                     n |-> n, burn_in |-> 1, seed |-> seed, build |-> b]
    /\ time = 1
    /\ sim = <<>>

\* A second of wall-clock time passes
Tick ==
    /\ time < MaxTime
    /\ time' = time + 1
    /\ UNCHANGED <<estimators, frame, sim>>

\* robarma::simulate(phi, theta, mu, n, burn_in, seed), the whole call
Simulate ==
    /\ Len(sim) < 2
    /\ sim' = Append(sim, [now |-> time,
                           out |-> simulate(frame.phi, frame.theta, frame.mu,
                                            frame.n, frame.burn_in, frame.seed,
                                            time, frame.build)])
    /\ UNCHANGED <<estimators, frame, time>>

NextSimulate == Tick \/ Simulate

SpecSimulate == InitSimulate /\ [][NextSimulate]_vars

\* ================================================================== claims
Min(a, b) == IF a <= b THEN a ELSE b

\* The latest solve call of the running entry point has returned
AfterSolve == solves # <<>>

Returned(ep) == entry = ep /\ pc = "ret"

\* ---------------------------------------------------------------------- C1
\* C1: whenever solve has returned, it has returned a Fit carrying the
\* method tag it was called with, and that Fit's convergence flag is TRUE
\* exactly when the optimizer's termination type is CONVERGENCE; this holds
\* for every termination type (solve has no failure path).
C1_ConvergenceIffConverged ==
    AfterSolve =>
        /\ fit # NoFit
        /\ summary.termination_type \in TerminationTypes
        /\ fit.result.method = solves[Len(solves)]
        /\ fit.result.convergence <=> (summary.termination_type = "CONVERGENCE")

\* An entry point has returned a Fit with convergence = false from a solve
\* whose optimizer reported a usable but unconverged solution.
C1_Witness ==
    /\ pc = "ret"
    /\ ret = fit
    /\ summary.termination_type = "NO_CONVERGENCE"
    /\ ret.result.convergence = FALSE

\* ---------------------------------------------------------------------- C2
\* C2: when bip_mm returns, the returned Fit is one of the two candidates
\* (the MM fit, tagged mm, and the BMM fit, tagged bmm), its final cost is
\* the minimum of the two candidates' final costs, and it is the MM fit
\* exactly when the MM cost is strictly smaller (BMM on a tie).
C2_BipMMReturnsSmallerCost ==
    Returned("bip_mm") =>
        LET m  == loc.fit_mm.result.final_cost
            mb == loc.fit_bmm.result.final_cost
        IN  /\ loc.fit_mm.result.method = "mm"
            /\ loc.fit_bmm.result.method = "bmm"
            /\ ret \in {loc.fit_mm, loc.fit_bmm}
            /\ ret.result.final_cost = Min(m, mb)
            /\ (m < mb) => ret = loc.fit_mm
            /\ (m >= mb) => ret = loc.fit_bmm

\* bip_mm has returned the MM fit, whose cost is strictly the smaller one
C2_Witness ==
    /\ Returned("bip_mm")
    /\ loc.fit_mm.result.final_cost < loc.fit_bmm.result.final_cost
    /\ ret.result.method = "mm"

\* ---------------------------------------------------------------------- C3
\* C3: in bip_mm the solve calls are made in the order S, BIP-S, MM, BMM, so
\* both initial solves have returned before the MM or the BMM solve starts;
\* the MM and the BMM cost functional both carry sigma = min(S.final_cost,
\* BIP-S.final_cost); the MM solve starts from the S fit's parameters and
\* the BMM solve from the BIP-S fit's parameters.
C3_BipMMOrderAndScale ==
    entry = "bip_mm" =>
        LET sg == Min(loc.s_mm.result.final_cost, loc.s_bmm.result.final_cost)
        IN  /\ \E len \in 0..4 : solves = SubSeq(<<"s", "bs", "mm", "bmm">>, 1, len)
            /\ (Len(solves) >= 1) => loc.s_mm.result.method = "s"
            /\ (Len(solves) >= 2) => loc.s_bmm.result.method = "bs"
            /\ (pc = "solve_mm") => loc.sigma = sg
            /\ (Len(solves) = 3) =>
                  /\ evaluated.cost_function = CostFunction("mm", sg)
                  /\ fit = loc.fit_mm
            /\ (Len(solves) = 4) =>
                  /\ evaluated.cost_function = CostFunction("bmm", sg)
                  /\ fit = loc.fit_bmm
            /\ (Len(solves) >= 3) =>
                  /\ loc.fit_mm.initial_params = <<loc.s_mm.params>>
                  /\ loc.fit_mm.initial_result = <<loc.s_mm.result>>
            /\ (Len(solves) = 4) =>
                  /\ loc.fit_bmm.initial_params = <<loc.s_bmm.params>>
                  /\ loc.fit_bmm.initial_result = <<loc.s_bmm.result>>

\* bip_mm has run all four solves; the S and BIP-S fits differ in cost and
\* in parameters, and the BMM functional carries the smaller of the costs.
C3_Witness ==
    /\ Returned("bip_mm")
    /\ solves = <<"s", "bs", "mm", "bmm">>
    /\ loc.s_mm.result.final_cost > loc.s_bmm.result.final_cost
    /\ loc.s_mm.params # loc.s_bmm.params
    /\ evaluated.cost_function.sigma = loc.s_bmm.result.final_cost

\* ---------------------------------------------------------------------- C4
\* C4: when estimators::mm returns, it has run the S solve and then the MM
\* solve; the MM functional was built with, and still carries at its final
\* evaluation, sigma = the S fit's final cost; the returned Fit is tagged
\* mm, its initial_params are the S fit's parameters and its initial_result
\* is the S fit's result (tagged s).
C4_MMStartsFromS ==
    Returned("mm") =>
        /\ solves = <<"s", "mm">>
        /\ loc.mm_initial.result.method = "s"
        /\ loc.sigma = loc.mm_initial.result.final_cost
        /\ evaluated.cost_function =
              CostFunction("mm", loc.mm_initial.result.final_cost)
        /\ ret.result.method = "mm"
        /\ ret.initial_params = <<loc.mm_initial.params>>
        /\ ret.initial_result = <<loc.mm_initial.result>>

\* estimators::mm has returned; the S solve had moved away from the
\* Hannan-Rissanen point with a non-zero final cost.
C4_Witness ==
    /\ Returned("mm")
    /\ loc.mm_initial.result.final_cost = 1
    /\ loc.mm_initial.params # loc.mm_initial.initial_params[1]
    /\ ret.initial_result[1].method = "s"

\* ---------------------------------------------------------------------- C5
\* C5: whenever solve has returned, for every termination type, the
\* final_cost of its Fit is the value the cost functional's Evaluate call
\* produced, and that call was made at exactly the parameters stored in the
\* Fit, with the functional of the Fit's method.
C5_FinalCostReevaluated ==
    AfterSolve =>
        /\ fit.result.final_cost = evaluated.cost
        /\ evaluated.at = fit.params
        /\ evaluated.cost_function.kind = fit.result.method

\* A solve has ended in FAILURE and reported a cost that differs from the
\* one in the optimizer's summary.
C5_Witness ==
    /\ AfterSolve
    /\ summary.termination_type = "FAILURE"
    /\ fit.result.final_cost = 1
    /\ summary.final_cost # fit.result.final_cost

\* ---------------------------------------------------------------------- C6
\* C6: the Fit returned by every public entry point refers to the caller's
\* Model, an object that is still alive when the entry point has returned.
C6_FitRefersToCallersModel ==
    (pc = "ret") => (ret.model = "caller" /\ ret.model \in alive)

\* ---------------------------------------------------------------------- C7
\* The input domain of the constructor
OutOfDomain(y, p, q) ==
    \/ Len(y) < fmax(p, q) + fmax(2 * p + 1, 2 * q + 1)
    \/ p < 0
    \/ q < 0
    \/ \E i \in 1..Len(y) : ~IsFinite(y[i])

\* C7: no Model object is produced from an out-of-domain input (n < r +
\* max(2p+1, 2q+1), p < 0, q < 0, or a non-finite entry in y).
C7_OutOfDomainFails ==
    constructed => ~OutOfDomain(model.y, model.p, model.q)

\* ---------------------------------------------------------------------- C8
\* C8: every constructed Model has p >= 0, q >= 0, p + q >= 1,
\* r = max(p, q) >= 1, n = |y| and sigma > 0.
C8_ModelInvariants ==
    constructed =>
        /\ model.p >= 0
        /\ model.q >= 0
        /\ model.p + model.q >= 1
        /\ model.r = (IF model.p >= model.q THEN model.p ELSE model.q)
        /\ model.r >= 1
        /\ model.n = Len(model.y)
        /\ model.sigma = "pos"

\* ---------------------------------------------------------------------- C9
\* C9: the three addresses solve obtains from get_pointers are non-null and
\* pairwise distinct, also when the phi and/or the theta block is empty.
C9_PointersDistinct ==
    AfterSolve =>
        /\ ptrs.phi \notin {"null", ptrs.theta, ptrs.mu}
        /\ ptrs.theta \notin {"null", ptrs.mu}
        /\ ptrs.mu # "null"

\* --------------------------------------------------------------------- C10
\* C10: when ols, mle, ftau, s or bip_s returns, the Fit has initial_params
\* and initial_result present; initial_result is tagged hannan_rissanen
\* with convergence = true and final_cost = 0; initial_params are the
\* Hannan-Rissanen parameters; result.method is the estimator's own tag.
C10_InitialIsHannanRissanen ==
    (entry \in {"ols", "mle", "ftau", "s", "bip_s"} /\ pc = "ret") =>
        /\ Len(ret.initial_params) = 1
        /\ Len(ret.initial_result) = 1
        /\ ret.initial_result[1].method = "hannan_rissanen"
        /\ ret.initial_result[1].convergence = TRUE
        /\ ret.initial_result[1].final_cost = 0
        /\ loc.initial.result.method = "hannan_rissanen"
        /\ ret.initial_params[1] = loc.initial.params
        /\ ret.result.method =
              (CASE entry = "ols" -> "ols" [] entry = "mle" -> "mle"
                 [] entry = "ftau" -> "ftau" [] entry = "s" -> "s"
                 [] entry = "bip_s" -> "bs")

\* bip_s has returned a Fit whose final parameters differ from the
\* Hannan-Rissanen parameters kept in initial_params.
C10_Witness ==
    /\ Returned("bip_s")
    /\ Len(ret.initial_params) = 1
    /\ ret.params # ret.initial_params[1]
    /\ ret.result.method = "bs"

\* --------------------------------------------------------------------- C11
\* C11: a Model is immutable after construction.  At every point of every
\* sequence of estimator calls the caller's model holds the input series in
\* the order it was given, and p, q, n, r, mu and sigma as the constructor
\* computed them from it; no step of any estimator changes the model.
C11_ModelImmutable ==
    /\ [](/\ constructed
          /\ model.y = Ramp(model.n)
          /\ model.n = HRLength(model.p, model.q)
          /\ model.r = fmax(model.p, model.q)
          /\ <<model.mu, model.sigma>> \in
                { <<m.mu, m.sigma>> : m \in arma_model(Ramp(model.n), model.p, model.q) })
    /\ [][model' = model /\ constructed' = constructed]_vars

\* bip_mm has run its four cost minimizations on a model whose series is
\* not in sorted order.
C11_Witness ==
    /\ Returned("bip_mm")
    /\ Len(solves) = 4
    /\ model.p = 1
    /\ model.y # sort(model.y)
    /\ model.y = Ramp(model.n)

\* --------------------------------------------------------------------- C12
\* The AR polynomial 1 - sum phi_k z^k and the MA polynomial
\* 1 + sum theta_k z^k, coefficients in units of 1/CoefDen
ARPolynomial(phi) == <<CoefDen>> \o [k \in 1..Len(phi) |-> - phi[k]]

MAPolynomial(theta) == <<CoefDen>> \o theta

\* The degree of a polynomial: the highest power with a non-zero coefficient
Degree(c) ==
    IF \E k \in 2..Len(c) : c[k] # 0
    THEN (CHOOSE k \in 2..Len(c) : c[k] # 0 /\ \A j \in (k+1)..Len(c) : c[j] = 0) - 1
    ELSE 0

\* A real polynomial of degree at most 2 with constant term c0 > 0 has a
\* root z with |z| <= 1.  Degree 1: the root is -c0/c1.  Degree 2: by the
\* Schur-Cohn test both roots lie outside the closed unit disk exactly
\* when |c2| < c0 and |c1| < c0 + c2.
HasRootInUnitDisk(c) ==
    CASE Degree(c) = 0 -> FALSE
      [] Degree(c) = 1 -> Abs(c[2]) >= c[1]
      [] Degree(c) = 2 -> ~ (Abs(c[3]) < c[1] /\ Abs(c[2]) < c[1] + c[3])

\* The input of the simulate calls is rejected by the claim's criterion
NotStationaryOrInvertible ==
    \/ Len(frame.phi) > 0 /\ HasRootInUnitDisk(ARPolynomial(frame.phi))
    \/ Len(frame.theta) > 0 /\ HasRootInUnitDisk(MAPolynomial(frame.theta))

\* C12: every simulate call whose AR polynomial (p > 0) or MA polynomial
\* (q > 0) has a root inside or on the unit disk raises invalid_argument,
\* returns no series and has drawn no value from the generator; every call
\* on stationary and invertible input raises nothing and returns a series.
C12_SimulateRaisesIffNotStationary ==
    \A i \in 1..Len(sim) :
        IF NotStationaryOrInvertible
        THEN /\ sim[i].out.raised = "invalid_argument"
             /\ sim[i].out.x = NoSeries
             /\ sim[i].out.drawn = 0
        ELSE /\ sim[i].out.raised = "none"
             /\ sim[i].out.x # NoSeries

\* --------------------------------------------------------------------- C13
\* C13 as stated: for every seed, the default 0 included, two simulate
\* calls with identical arguments have identical outcomes, whenever made.
C13_SameArgumentsSameSeries ==
    \A i, j \in 1..Len(sim) : sim[i].out = sim[j].out

\* C13 amended: two simulate calls with identical arguments have identical
\* outcomes whenever the seed is not 0, at whatever times they are made;
\* with seed 0 (the default) the generator is seeded from the clock, and
\* the outcomes are identical when both calls read the same clock value.
C13_SameSeedSameSeries ==
    \A i, j \in 1..Len(sim) :
        (frame.seed # 0 \/ sim[i].now = sim[j].now) => sim[i].out = sim[j].out

\* Two calls with a non-zero seed, made at different times, have returned
\* the same series.
C13_Witness ==
    /\ Len(sim) = 2
    /\ frame.seed # 0
    /\ sim[1].now # sim[2].now
    /\ sim[1].out.raised = "none"
    /\ sim[1].out.x # NoSeries
    /\ sim[1].out = sim[2].out

\* --------------------------------------------------------------------- C14
\* C14: every call of scale whose starting value median(|x|)/0.6745 is 0
\* returns, and returns 0 (not NaN, not infinity), for each rho function
\* the library passes; it does so after a single update.
C14_ScaleZeroStart ==
    (frame.fn = "scale" /\ median(AbsSeq(frame.x)) = {0}) =>
        /\ frame.i <= 1
        /\ frame.sigma_0 = "zero"
        /\ (frame.i = 1) => frame.err = "nan"
        /\ (frame.pc = "done") => (frame.result = "zero" /\ frame.i = 1)
        /\ (frame.pc = "loop") => (ENABLED ScaleUpdate \/ ENABLED ScaleReturn)

\* scale has returned 0 for a vector with zero entries for more than half
\* and an infinite entry, so x / sigma_0 held both NaN and infinity.
C14_Witness ==
    /\ frame.fn = "scale"
    /\ frame.pc = "done"
    /\ frame.rho = "bip::rho1"
    /\ frame.result = "zero"
    /\ median(AbsSeq(frame.x)) = {0}
    /\ \E i, j \in 1..Len(frame.x) : frame.x[i] = 0 /\ frame.x[j] = Inf

\* --------------------------------------------------------------------- C15
\* C15: an update step whose innovation variance f is zero or negative
\* divides by a denominator that is not zero (f plus a tiny positive
\* epsilon), and starting from numbers a, P, v it leaves numbers in a and P.
C15_UpdateGuardsDivision ==
    /\ (frame.fn = "update" /\ SignOf(frame.f) <= 0) =>
           /\ SignOf(frame.out.divisor) # 0
           /\ IsNum(frame.out.a)
           /\ IsNum(frame.out.P)
    /\ (frame.fn = "mle" /\ frame.i > 0 /\ SignOf(frame.f) <= 0) =>
           /\ SignOf(frame.divisor) # 0
           /\ IsNum(frame.a)
           /\ IsNum(frame.P)

\* --------------------------------------------------------------------- C18
\* |a - b| <= 1e-12
WithinTolerance(a, b) ==
    LET e == RatAbs(RatSub(a, b))
    IN  e[1] <= (e[2] \div 1000000) \div 1000000

\* The branch of f that takes over beyond the knot at x, evaluated at x
BeyondKnot(f, x) ==
    CASE f = "bip::eta"  -> IF RatAbs(x) = Dec(2, 0) THEN bip_eta_middle(x) ELSE Dec(0, 0)
      [] f = "bip::rho2" -> IF RatAbs(x) = Dec(2, 0) THEN bip_rho2_middle(x) ELSE Dec(325, 2)
      [] f = "bip::rho1" -> IF RatAbs(x) = Dec(810, 3)
                            THEN bip_rho2_middle(RatDiv(x, Dec(405, 3))) ELSE Dec(325, 2)
      [] f = "tau::rho1" -> Dec(1, 0)
      [] f = "tau::rho2" -> Dec(1, 0)

\* f has been evaluated at one of its knots
AtKnot == frame.pc = "done" /\ RatAbs(frame.x) \in Knots(frame.fn)

RhoFamilies == {"bip::rho1", "bip::rho2", "bip::eta", "tau::rho1", "tau::rho2"}

BeyondOuterKnot ==
    frame.pc = "done" /\ \A c \in Knots(frame.fn) : RatLess(c, RatAbs(frame.x))

\* f(-x) = -f(x) at the argument evaluated
OddAtX == Apply(frame.fn, RatNeg(frame.x)) = RatNeg(frame.value)

\* C19 as stated: Bianco psi and Muler eta are odd, and both are 0 beyond
\* their outer knot (1.55 and 3).
C19_OddAndVanishing ==
    (frame.pc = "done" /\ frame.fn \in {"tau::psi", "bip::eta"}) =>
        /\ OddAtX
        /\ BeyondOuterKnot => frame.value = Dec(0, 0)

\* C19: Bianco psi and Muler eta are odd; eta is 0 for |x| > 3; psi is
\* clipped, not redescending: psi(x) = 1.55 for x > 1.55 and -1.55 for
\* x < -1.55.
C19_OddEtaVanishesPsiClips ==
    (frame.pc = "done" /\ frame.fn \in {"tau::psi", "bip::eta"}) =>
        /\ OddAtX
        /\ (BeyondOuterKnot /\ frame.fn = "bip::eta") => frame.value = Dec(0, 0)
        /\ (BeyondOuterKnot /\ frame.fn = "tau::psi") =>
               frame.value = (IF RatLess(Dec(0, 0), frame.x) THEN Dec(155, 2) ELSE Dec(-155, 2))

\* psi has been evaluated at -2, below its knot -1.55, and returned -1.55.
C19_Witness ==
    /\ BeyondOuterKnot
    /\ frame.fn = "tau::psi"
    /\ frame.x = Dec(-2, 0)
    /\ frame.value = Dec(-155, 2)

\* --------------------------------------------------------------------- C20
\* C20: for every finite vector, MAD is not negative and the value MADN
\* returns equals MAD divided by 0.6745.
C20_MADNIsMADOver06745 ==
    (frame.fn = "MADN" /\ \A i \in 1..Len(frame.x) : IsFinite(frame.x[i])) =>
        /\ frame.mad >= 0
        /\ frame.result = Over(frame.mad, 6745, 10000)

\* --------------------------------------------------------------------- C16
\* The position of a section in what was printed (0 when absent)
PositionOf(out, section) ==
    IF \E i \in 1..Len(out) : out[i].section = section
    THEN CHOOSE i \in 1..Len(out) : out[i].section = section
    ELSE 0

\* C16: printing the Fit an entry point returned writes the method name,
\* then the convergence boolean, then final_cost with 4 decimals, and only
\* after these the initial (phi, theta, mu) block followed by the final
\* (phi, theta, mu) block; the initial block is left out exactly when the
\* Fit has no initial_params.
C16_PrintOrder ==
    (pc = "ret") =>
        LET out == print_fit(ret)
            at(section) == PositionOf(out, section)
        IN  /\ 0 < at("estimation method")
            /\ at("estimation method") < at("convergence")
            /\ at("convergence") < at("final cost")
            /\ out[at("final cost")].text.decimals = 4
            /\ (at("Initial values") = 0) <=> (ret.initial_params = <<>>)
            /\ (at("Initial values") # 0) =>
                  /\ at("final cost") < at("Initial values")
                  /\ at("Initial values") < at("initial phi")
                  /\ at("initial phi") < at("initial theta")
                  /\ at("initial theta") < at("initial mu")
                  /\ at("initial mu") < at("Estimated parameters")
            /\ at("final cost") < at("Estimated parameters")
            /\ at("Estimated parameters") < at("phi")
            /\ at("phi") < at("theta")
            /\ at("theta") < at("mu")

\* --------------------------------------------------------------------- C17
\* C17: across any sequence of estimator calls InitGoogleLogging is called
\* at most once: no solve has run while the guard flag is unset and glog is
\* untouched; the first solve initializes glog and sets the flag; once the
\* flag is set it stays set and no step touches glog again; the clock and
\* the caller's model, the other state that outlives a call, never change.
C17_LoggingInitializedOnce ==
    /\ [](/\ logging.init_calls <= 1
          /\ initialized <=> (logging.init_calls = 1)
          /\ initialized <=> (logging # NoLogging)
          /\ (solves # <<>>) => initialized)
    /\ [][/\ initialized => (initialized' /\ logging' = logging)
          /\ (logging' # logging) <=> (~initialized /\ initialized')
          /\ (Len(solves') > Len(solves)) => initialized'
          /\ time' = time
          /\ model' = model]_vars

\* bip_mm has made its fourth solve call, each of which has passed through
\* disable_ceres_logging, and glog has been initialized exactly once.
C17_Witness ==
    /\ entry = "bip_mm"
    /\ Len(solves) = 4
    /\ initialized
    /\ logging = [init_calls |-> 1, minloglevel |-> 3, logtostderr |-> 0]

\* --------------------------------------------------------------------- C22
\* e_i of the recurrence, for i counted from 0: zero below r = max(p, q),
\* and y_i - mu (1 - sum phi) - sum_k phi_k y_(i-k) - sum_k theta_k e_(i-k)
\* from r on
RECURSIVE ResidualAt(_, _, _, _, _)
ResidualAt(m, phi, theta, mu, i) ==
    IF i < (IF m.p < m.q THEN m.q ELSE m.p) THEN Dec(0, 0)
    ELSE RatSub(RatSub(RatSub(m.y[i + 1], RatMul(mu, RatSub(Dec(1, 0), RatSum(phi)))),
                       RatSum([k \in 1..m.p |-> RatMul(phi[k], m.y[i - k + 1])])),
                RatSum([k \in 1..m.q |-> RatMul(theta[k], ResidualAt(m, phi, theta, mu, i - k))]))

\* C22: arma_residuals keeps e at length n, never takes a segment or an
\* entry outside y or e, and every entry it has passed holds the value of
\* the recurrence (zero below r); entries not yet passed are zero.
C22_ArmaResidualsRecurrence ==
    (frame.fn = "arma_residuals") =>
        /\ frame.pc # "undefined"
        /\ Len(frame.e) = frame.m.n
        /\ (frame.pc = "loop" /\ frame.i < frame.m.n) => body_in_range(frame.m, frame.e, frame.i)
        /\ (frame.pc = "done") => frame.i >= frame.m.n
        /\ \A j \in 0..(frame.m.n - 1) :
              frame.e[j + 1] = (IF j < frame.i
                                THEN ResidualAt(frame.m, frame.phi, frame.theta, frame.mu, j)
                                ELSE Dec(0, 0))

\* arma_residuals has returned for p = q = 1 with non-zero phi and theta
\* and non-zero last two residuals, so the last entry was computed from a
\* past observation and a non-zero past residual.
C22_Witness ==
    /\ frame.fn = "arma_residuals"
    /\ frame.pc = "done"
    /\ frame.m.p = 1
    /\ frame.m.q = 1
    /\ frame.m.n >= 3
    /\ frame.phi[1] # Dec(0, 0)
    /\ frame.theta[1] # Dec(0, 0)
    /\ frame.e[frame.m.n] # Dec(0, 0)
    /\ frame.e[frame.m.n - 1] # Dec(0, 0)

\* --------------------------------------------------------------------- C25
\* |e / sigma| for entry j (from 0) of the residuals computed so far
Standardized(j) == RatAbs(RatDiv(frame.e[j + 1], frame.sigma))

\* What the residual at j passes on through eta: nothing when
\* |e_j / sigma| > 3, sigma * eta(e_j / sigma) otherwise
ThroughEta(j) ==
    IF RatLess(Dec(3, 0), Standardized(j)) THEN Dec(0, 0)
    ELSE RatMul(frame.sigma, bip_eta(RatDiv(frame.e[j + 1], frame.sigma)))

\* e_i of the BIP recurrence from the entries before i, with the residuals
\* beyond 3 sigma left out of the eta sums
BipResidualFromPast(i) ==
    LET m == frame.m
    IN  RatSub(RatSub(RatSub(RatSub(m.y[i + 1],
                                    RatMul(frame.mu, RatSub(Dec(1, 0), RatSum(frame.phi)))),
                             RatSum([k \in 1..m.p |-> RatMul(frame.phi[k], RatSub(m.y[i - k + 1], frame.e[i - k + 1]))])),
                      RatSum([k \in 1..m.q |-> RatMul(frame.theta[k], ThroughEta(i - k))])),
               RatSum([k \in 1..m.p |-> RatMul(frame.phi[k], ThroughEta(i - k))]))

\* C25: in bip_arma_residuals with sigma > 0, as long as every residual
\* produced so far has |e_j / sigma| <= 2 the entries produced equal those
\* of arma_residuals; and every entry produced is the BIP recurrence with
\* the eta terms of past residuals beyond 3 sigma contributing nothing.
C25_BipCoincidesUnclipped ==
    (frame.fn = "bip_arma_residuals" /\ RatLess(Dec(0, 0), frame.sigma)) =>
        /\ frame.pc # "undefined"
        /\ (\A j \in 0..(frame.i - 1) : j < frame.m.n => RatLeq(Standardized(j), Dec(2, 0))) =>
              \A j \in 0..(frame.m.n - 1) :
                 frame.e[j + 1] = (IF j < frame.i
                                   THEN ResidualAt(frame.m, frame.phi, frame.theta, frame.mu, j)
                                   ELSE Dec(0, 0))
        /\ \A j \in frame.m.r..(frame.i - 1) : frame.e[j + 1] = BipResidualFromPast(j)

\* bip_arma_residuals has returned for p = q = 1 where the residual before
\* the last lies beyond 3 sigma, phi + theta is not zero, and the last
\* residual differs from the classical one.
C25_Witness ==
    /\ frame.fn = "bip_arma_residuals"
    /\ frame.pc = "done"
    /\ frame.m.p = 1
    /\ frame.m.q = 1
    /\ frame.m.n >= 3
    /\ RatAdd(frame.phi[1], frame.theta[1]) # Dec(0, 0)
    /\ RatLess(Dec(3, 0), Standardized(frame.m.n - 2))
    /\ frame.e[frame.m.n] # ResidualAt(frame.m, frame.phi, frame.theta, frame.mu, frame.m.n - 1)

\* --------------------------------------------------------------------- C23
\* lambda_k read off the returned vector w = <<lambda_1, ..., lambda_99>>,
\* with lambda_0 = 1 and lambda_k = 0 for k < 0
WeightAt(w, k) == IF k = 0 THEN 1 ELSE IF k < 0 THEN 0 ELSE w[k]

\* The value the recurrence lambda_k = sum_i phi_i lambda_(k-i) - theta_k
\* gives entry k from the entries before it (theta_k = 0 for k > q)
WeightFromPast(w, phi, theta, k) ==
    LET ar == IF Len(phi) = 0 THEN 0
              ELSE IF Len(phi) = 1 THEN phi[1] * WeightAt(w, k - 1)
              ELSE phi[1] * WeightAt(w, k - 1) + phi[2] * WeightAt(w, k - 2)
    IN  ar - (IF k <= Len(theta) THEN theta[k] ELSE 0)

\* C23: causal returns exactly 99 coefficients, and entry k of them is
\* lambda_k of the recurrence, for k = 1..99.
C23_CausalReturnsWeights ==
    (frame.fn = "causal" /\ frame.pc = "done") =>
        /\ Len(frame.result) = 99
        /\ \A k \in 1..99 :
              frame.result[k] = WeightFromPast(frame.result, frame.phi, frame.theta, k)

\* --------------------------------------------------------------------- C24
\* C24: when the MLE cost enters its filter loop, the state covariance P is
\* the stationary P0 of the Lyapunov equation for the current phi (and
\* theta), whenever that equation has a solution (here |phi| < 1).
C24_MLEStartsFromLyapunovP0 ==
    (frame.fn = "mle" /\ frame.i = 0 /\ IsNum(P0(F0(frame.phi), H0))) =>
        frame.P = P0(F0(frame.phi), H0)

\* --------------------------------------------------------------------- C26
\* The loop of scale is left only by its test: the last change was not
\* above tol, or max updates were made
ScaleStopped(errs) == frame.i = 100 \/ frame.err \in errs

\* C26 as stated: scale makes at most 100 updates and returns the last
\* sigma computed, and when it returns before the 100th update the last
\* relative change was below the tolerance.
C26_StopsBelowTolerance ==
    (frame.fn = "scale") =>
        /\ frame.i <= 100
        /\ (frame.pc = "done") =>
              /\ frame.result = frame.sigma_0
              /\ ScaleStopped({"zero", "small"})

\* C26: every call of scale returns; it makes at least one and at most 100
\* updates, an update is made only after a relative change above the
\* tolerance (or at entry), and it returns the last sigma computed at the
\* first update whose relative change is at most the tolerance or is NaN,
\* or after the 100th update.
C26_ScaleTerminates ==
    /\ [](frame.fn = "scale" =>
             /\ frame.i <= 100
             /\ (frame.pc = "done") =>
                   /\ frame.i >= 1
                   /\ frame.result = frame.sigma_0
                   /\ ScaleStopped({"zero", "small", "tol", "nan"}))
    /\ [][(frame.fn = "scale" /\ frame.pc = "loop") =>
             /\ (frame'.i = frame.i + 1 /\ frame'.pc = "loop" /\ frame.err \in {"large", "inf"} /\ frame.i < 100)
                   \/ (frame'.i = frame.i /\ frame'.pc = "done" /\ frame'.sigma_0 = frame.sigma_0 /\ ~(frame.err \in {"large", "inf"} /\ frame.i < 100))]_vars
    /\ (frame.fn = "scale") ~> (frame.fn = "scale" /\ frame.pc = "done")

\* scale has returned after 100 updates whose relative changes all stayed
\* above the tolerance.
C26_Witness ==
    /\ frame.fn = "scale"
    /\ frame.pc = "done"
    /\ frame.i = 100
    /\ frame.err = "large"
    /\ frame.result = "pos"

\* The positions at which solver::solve is called
SolvePositions == {"solve", "solve2", "solve_mm", "solve_bmm"}

\* The caller's fit handed to solve at position p of entry point e, read
\* from the locals l
SolveArgument(l, e, p) ==
    CASE p \in {"solve", "solve2"} -> l.initial
      [] p = "solve_mm" -> IF e = "mm" THEN l.mm_initial ELSE l.s_mm
      [] OTHER -> l.s_bmm

\* C27: solve never modifies the initial fit it is given.  Across every
\* call of solve the caller's fit handed to it is the same object value
\* after the call as before (so are the S fit and the BIP-S fit held by
\* bip_mm), and the returned fit's initial_params and initial_result are the
\* params and result the initial fit had before the optimization.
C27_SolveKeepsInitialFit ==
    [][(pc \in SolvePositions /\ pc' # pc) =>
          /\ SolveArgument(loc', entry, pc) = SolveArgument(loc, entry, pc)
          /\ loc'.initial = loc.initial
          /\ (pc # "solve") => loc'.s_mm = loc.s_mm
          /\ (pc \in {"solve_mm", "solve_bmm"}) => loc'.s_bmm = loc.s_bmm
          /\ fit'.initial_params = <<SolveArgument(loc, entry, pc).params>>
          /\ fit'.initial_result = <<SolveArgument(loc, entry, pc).result>>]_vars

\* bip_mm has returned; the MM and the BMM optimizations both moved every
\* parameter away from the S fit and the BIP-S fit they started from
C27_Witness ==
    /\ entry = "bip_mm"
    /\ pc = "ret"
    /\ model.p > 0
    /\ model.q > 0
    /\ loc.fit_mm.params.phi # loc.s_mm.params.phi
    /\ loc.fit_mm.params.theta # loc.s_mm.params.theta
    /\ loc.fit_mm.params.mu # loc.s_mm.params.mu
    /\ loc.fit_bmm.params.mu # loc.s_bmm.params.mu
    /\ loc.fit_mm.initial_params = <<loc.s_mm.params>>
    /\ loc.fit_bmm.initial_params = <<loc.s_bmm.params>>

\* ------------------------------------------------------ ftau.hpp (SpecFtau)
\* tau::s(u) = base::scale(u, 0.5, rho1).  The M-scale is the limit of an
\* iteration on irrational values; it is carried as the term naming the
\* call, which is a function of the vector, of b and of rho alone.
tau_s(u) == [fn |-> "scale", x |-> u, b |-> Dec(5, 1), rho |-> "tau::rho1"]

\* Variant: sigma is the M-scale of the series centred at the current mu
\* (mu is carried doubled, as medians are)
ftau_sigma_at_mu(mdl, phi, theta, mu) ==
    { tau_s(Centred(mdl.y, Times(2, mu))) }

\* ftau::cost::operator(): y_centered = model.y - median(model.y) and
\* sigma = tau::s(y_centered), computed at the start of the evaluation at
\* (phi, theta, mu).  The possible values, one per value median can return.
ftau_sigma(mdl, phi, theta, mu) ==
    { tau_s(Centred(mdl.y, m)) : m \in median(mdl.y) }

\* The order of the models the cost functional is built for
FtauOrder == <<1, 1>>

\* The parameter blocks ceres can hand to an evaluation
FtauPoints ==
    { [phi |-> <<a>>, theta |-> <<b>>, mu |-> c] :
        a \in ParamVals, b \in ParamVals, c \in ParamVals }

InitFtau ==
    /\ constructed = FALSE
    /\ model = NoModel
    /\ Idle
    /\ frame = NoFrame
    /\ time = 0
    /\ sim = <<>>

\* new ftau::cost(model): the functor keeps its own copy of the model
FtauCost(y) ==
    /\ frame = NoFrame
    /\ \E m \in arma_model(y, FtauOrder[1], FtauOrder[2]) :
         frame' = [fn |-> "ftau::cost", model |-> m, evaluations |-> <<>>]
    /\ UNCHANGED <<estimators, time, sim>>

\* One evaluation of the cost at the blocks pt, as the optimizer requests
\* it: sigma is computed, used by predict in every step of the filter and
\* by loss, and the functor (const operator()) is left as it was.  An
\* optimization makes any number of evaluations; the model follows two.
FtauEvaluate(pt) ==
    /\ frame # NoFrame
    /\ IF frame.fn = "ftau::cost" THEN Len(frame.evaluations) < 2 ELSE FALSE
    /\ \E sigma \in ftau_sigma(frame.model, pt.phi, pt.theta, pt.mu) :
         frame' = [frame EXCEPT !.evaluations =
                       Append(@, [at |-> pt, sigma |-> sigma])]
    /\ UNCHANGED <<estimators, time, sim>>

NextFtau ==
    \/ \E y \in Vectors : FtauCost(y)
    \/ \E pt \in FtauPoints : FtauEvaluate(pt)

SpecFtau == InitFtau /\ [][NextFtau]_vars

\* C28: the sigma used by the filtered-tau cost is fixed for the whole
\* optimization.  In every evaluation it is the M-scale (tau::s) of the
\* model's series minus its median, so it depends on the series only, and
\* any two evaluations use the same value whatever (phi, theta, mu) they
\* are made at.
C28_FtauSigmaFixed ==
    (frame # NoFrame) =>
        IF frame.fn = "ftau::cost"
        THEN LET ev == frame.evaluations
             IN  /\ \A i \in 1..Len(ev) :
                       \E m \in median(frame.model.y) :
                           ev[i].sigma = tau_s(Centred(frame.model.y, m))
                 /\ \A i, j \in 1..Len(ev) : ev[i].sigma = ev[j].sigma
        ELSE TRUE

\* Two evaluations at points that differ in phi, theta and mu, on a series
\* that is not constant
C28_Witness ==
    /\ frame # NoFrame
    /\ IF frame.fn = "ftau::cost"
       THEN /\ Len(frame.evaluations) = 2
            /\ frame.evaluations[1].at.phi # frame.evaluations[2].at.phi
            /\ frame.evaluations[1].at.theta # frame.evaluations[2].at.theta
            /\ frame.evaluations[1].at.mu # frame.evaluations[2].at.mu
            /\ \E i, j \in 1..Len(frame.model.y) :
                   frame.model.y[i] # frame.model.y[j]
       ELSE FALSE
====
